---- MODULE Spec2Model ----
(***************************************************************************)
(* A model of the planner's resource allocation engine: the bit-packed     *)
(* quarter-day rows (chartrow.rs), periods (chartperiod.rs), the            *)
(* per-node transfer functions (nodes/data/mod.rs), the management          *)
(* transfer (nodes/root/mod.rs) and the phase loop that drives them.        *)
(***************************************************************************)
EXTENDS Integers, Sequences, FiniteSets, TLC

VARIABLES
    build,      \* "debug" (u32 overflow panics) or "release" (u32 overflow wraps)
    inp,        \* row harness: the arguments of one transfer call
    out,        \* row harness: rows, result and outcome after the call
    sm,         \* row harness: the smear outer loop, one pass per step
    root,       \* RootConfigData
    nodes,      \* the non-root nodes' NodeConfigData, in tree pre-order
    phase,      \* scheduler: index of the current phase
    idx,        \* scheduler: index of the next node the phase visits
    status      \* scheduler: "running", "done", "panicked" or "hung"

vars == <<build, inp, out, sm, root, nodes, phase, idx, status>>

(***************************************************************************)
(* Bounds of the model.                                                    *)
(***************************************************************************)
SmallCells == 4      \* width of the exhaustively enumerated rows
MaxWeeks == 2        \* charts are up to MaxWeeks weeks (20*MaxWeeks cells) wide

(***************************************************************************)
(* Program constants.                                                      *)
(***************************************************************************)
QuartersPerWeek == 20
QuartersPerDay == 4
SmearPercent == 20

None == << >>
Some(x) == <<x>>
IsSome(o) == Len(o) = 1
IsNone(o) == Len(o) = 0
Unwrap(o) == o[1]

MaxOf(S) == CHOOSE x \in S : \A y \in S : y <= x

(***************************************************************************)
(* ChartPeriod: a closed interval [first, last] of quarter indices.        *)
(***************************************************************************)
Period(f, l) == [first |-> f, last |-> l]

\* ChartPeriod::new: an Option here, None where the code returns Err.
NewPeriod(f, l) == IF f > l THEN None ELSE Some(Period(f, l))

PeriodLength(p) == p.last + 1 - p.first

PeriodCells(p) == p.first .. p.last

IntersectNeverEmpty(self, other) ==
    IF self.first >= other.first /\ self.first <= other.last
    THEN IF self.last > other.last
         THEN Some(Period(self.first, other.last))
         ELSE Some(Period(self.first, self.last))
    ELSE IF other.first >= self.first /\ other.first <= self.last
    THEN IF other.last > self.last
         THEN Some(Period(other.first, self.last))
         ELSE Some(Period(other.first, other.last))
    ELSE Some(self)

IntersectKeepsSelf(self, other) ==
    IF self.first >= other.first /\ self.first <= other.last
    THEN Some(Period(self.first, self.last))
    ELSE IF other.first >= self.first /\ other.first <= self.last
    THEN IF other.last > self.last
         THEN Some(Period(other.first, self.last))
         ELSE Some(Period(other.first, other.last))
    ELSE None

\* ChartPeriod::intersect, branch by branch.
Intersect(self, other) ==
    IF self.first >= other.first /\ self.first <= other.last
    THEN IF self.last > other.last
         THEN Some(Period(self.first, other.last))
         ELSE Some(Period(self.first, self.last))
    ELSE IF other.first >= self.first /\ other.first <= self.last
    THEN IF other.last > self.last
         THEN Some(Period(other.first, self.last))
         ELSE Some(Period(other.first, other.last))
    ELSE None

(***************************************************************************)
(* ChartRow: num_cells and the set of set cells.  The byte vector of the   *)
(* code holds bit c exactly when c is in cells.                            *)
(***************************************************************************)
Row(n, cs) == [num_cells |-> n, cells |-> cs]

NewRow(n) == Row(n, {})

IsSet(row, cell) == cell \in row.cells

\* ChartRow::set / unset: [ok, row]; ok is FALSE where the code bails.
SetCell(row, cell) ==
    IF cell >= row.num_cells
    THEN [ok |-> FALSE, row |-> row]
    ELSE [ok |-> TRUE, row |-> Row(row.num_cells, row.cells \cup {cell})]

UnsetCell(row, cell) ==
    IF cell >= row.num_cells
    THEN [ok |-> FALSE, row |-> row]
    ELSE [ok |-> TRUE, row |-> Row(row.num_cells, row.cells \ {cell})]

SetRangeUnchecked(row, period) ==
    [ok |-> period.last < row.num_cells,
     row |-> Row(row.num_cells, row.cells \cup PeriodCells(period))]

\* ChartRow::set_range: stops at the first cell that cannot be set.
SetRange(row, period) ==
    IF period.last >= row.num_cells
    THEN [ok |-> FALSE,
          row |-> Row(row.num_cells,
                      row.cells \cup {c \in PeriodCells(period) : c < row.num_cells})]
    ELSE [ok |-> TRUE, row |-> Row(row.num_cells, row.cells \cup PeriodCells(period))]

CountRange(row, period) == Cardinality(row.cells \cap PeriodCells(period))

Count(row) == Cardinality(row.cells)

Transferable(src, dst, cell) == IsSet(src, cell) /\ ~IsSet(dst, cell)

TransferableIn(src, dst, period) ==
    {c \in PeriodCells(period) : Transferable(src, dst, c)}

(***************************************************************************)
(* TransferResult.                                                         *)
(***************************************************************************)
TransferResultNew(to_transfer) ==
    [earliest |-> None, latest |-> None, transferred |-> 0, failed |-> to_transfer]

ToTransfer(rc) == rc.failed

\* Mutant of RecordTransfer: counts the cell without taking it off `failed`.
RecordTransferKeepsFailed(rc, cell) ==
    IF rc.failed = 0
    THEN [ok |-> FALSE, rc |-> rc]
    ELSE [ok |-> TRUE,
          rc |-> [earliest |-> Some(cell), latest |-> Some(cell),
                  transferred |-> rc.transferred + 1, failed |-> rc.failed]]

\* TransferResult::transfer: [ok, rc]; ok is FALSE for "too many cells".
RecordTransfer(rc, cell) ==
    IF rc.failed = 0
    THEN [ok |-> FALSE, rc |-> rc]
    ELSE [ok |-> TRUE,
          rc |-> [earliest |-> IF IsSome(rc.earliest) /\ ~(cell < Unwrap(rc.earliest))
                               THEN rc.earliest ELSE Some(cell),
                  latest |-> IF IsSome(rc.latest) /\ ~(cell > Unwrap(rc.latest))
                             THEN rc.latest ELSE Some(cell),
                  transferred |-> rc.transferred + 1,
                  failed |-> rc.failed - 1]]


(***************************************************************************)
(* IEEE-754 binary64 arithmetic, as far as smear_transfer_to uses it: the  *)
(* quotient of two small integers, repeated addition, and the comparison   *)
(* with an integer.  A value is <<hi, mid, lo>>, three 24-bit limbs of the *)
(* integer X with value X / 2^64; every operation rounds X to 53           *)
(* significant bits, ties to even.  Exact for values below 2^8 and         *)
(* quotients of integers below 2^7 (the dropped bits then lie in lo).      *)
(***************************************************************************)
Limb == 2^24
HiUnit == 2^16       \* the integer 1 is <<HiUnit, 0, 0>>
Mantissa == 53

F64Zero == <<0, 0, 0>>

BitLen(x) == CHOOSE n \in 0..24 : x < 2^n /\ (n = 0 \/ 2^(n-1) <= x)

F64BitLen(x) ==
    IF x[1] > 0 THEN 48 + BitLen(x[1])
    ELSE IF x[2] > 0 THEN 24 + BitLen(x[2])
    ELSE BitLen(x[3])

F64Carry(x) ==
    LET lo == x[3] % Limb
        m == x[2] + (x[3] \div Limb)
    IN <<x[1] + (m \div Limb), m % Limb, lo>>

\* Round to nearest, ties to even; sticky says that bits below lo were dropped.
F64Round(x, sticky) ==
    LET n == F64BitLen(x) IN
    IF n <= Mantissa THEN x
    ELSE LET p == 2^(n - Mantissa)
             low == x[3] % p
             half == p \div 2
             odd == (x[3] \div p) % 2 = 1
             up == low > half \/ (low = half /\ (sticky \/ odd))
         IN F64Carry(<<x[1], x[2], x[3] - low + (IF up THEN p ELSE 0)>>)

\* num as f64 / den as f64
F64Div(num, den) ==
    LET n1 == num * HiUnit
        r1 == n1 % den
        r2 == (r1 * Limb) % den
        r3 == (r2 * Limb) % den
    IN F64Round(<<n1 \div den, (r1 * Limb) \div den, (r2 * Limb) \div den>>, r3 # 0)

F64Add(x, y) == F64Round(F64Carry(<<x[1] + y[1], x[2] + y[2], x[3] + y[3]>>), FALSE)

\* x > (t as f64)
F64GtInt(x, t) ==
    LET ip == x[1] \div HiUnit IN
    ip > t \/ (ip = t /\ (x[1] % HiUnit # 0 \/ x[2] # 0 \/ x[3] # 0))

(***************************************************************************)
(* The three transfers.  A scan state is [src, dst, rc, outcome]: the two  *)
(* rows as mutated so far, the result so far, and outcome "ok", "err"      *)
(* (the function returned Err), "panic" or "hang".  Rows are mutated in    *)
(* place, so an Err leaves the cells already moved where they are.         *)
(***************************************************************************)
Scan(src, dst, rc, outcome) == [src |-> src, dst |-> dst, rc |-> rc, outcome |-> outcome]

\* Mutant of TransferCell: the cell is set in the destination and left set
\* in the source.
TransferCellKeepsSource(st, cell) ==
    LET s == SetCell(st.dst, cell)
        r == RecordTransfer(st.rc, cell)
    IN IF ~s.ok \/ ~r.ok THEN Scan(st.src, st.dst, st.rc, "err")
       ELSE Scan(st.src, s.row, r.rc, "ok")

TransferCellLosesCell(st, cell) ==
    LET u == UnsetCell(st.src, cell)
        r == RecordTransfer(st.rc, cell)
    IN IF ~u.ok THEN Scan(st.src, st.dst, st.rc, "err")
       ELSE IF ~r.ok THEN Scan(u.row, st.dst, st.rc, "err")
       ELSE Scan(u.row, st.dst, r.rc, "ok")

\* self.unset(cell)?; dest.set(cell)?; rc.transfer(cell)?
TransferCell(st, cell) ==
    LET u == UnsetCell(st.src, cell)
        s == SetCell(st.dst, cell)
        r == RecordTransfer(st.rc, cell)
    IN IF ~u.ok THEN Scan(st.src, st.dst, st.rc, "err")
       ELSE IF ~s.ok THEN Scan(u.row, st.dst, st.rc, "err")
       ELSE IF ~r.ok THEN Scan(u.row, s.row, st.rc, "err")
       ELSE Scan(u.row, s.row, r.rc, "ok")

\* Mutant of FillScan: the scan leaves out the last cell of the period.
RECURSIVE FillScanStopsShort(_, _, _)
FillScanStopsShort(st, cell, last) ==
    IF cell >= last THEN st
    ELSE IF Transferable(st.src, st.dst, cell)
    THEN LET t == TransferCell(st, cell) IN
         IF t.outcome # "ok" \/ ToTransfer(t.rc) = 0 THEN t
         ELSE FillScanStopsShort(t, cell + 1, last)
    ELSE FillScanStopsShort(st, cell + 1, last)

\* The loop of fill_transfer_to: cell in period.first .. period.last.
RECURSIVE FillScan(_, _, _)
FillScan(st, cell, last) ==
    IF cell > last THEN st
    ELSE IF Transferable(st.src, st.dst, cell)
    THEN LET t == TransferCell(st, cell) IN
         IF t.outcome # "ok" \/ ToTransfer(t.rc) = 0 THEN t
         ELSE FillScan(t, cell + 1, last)
    ELSE FillScan(st, cell + 1, last)

\* Mutant of FillTransferTo: the scan starts one cell late.
FillTransferToSkipsFirst(src, dst, count, period) ==
    FillScan(Scan(src, dst, TransferResultNew(count), "ok"), period.first + 1, period.last)

FillTransferTo(src, dst, count, period) ==
    FillScan(Scan(src, dst, TransferResultNew(count), "ok"), period.first, period.last)

\* reverse_fill_transfer_to once `cell` has wrapped to 2^32-1 (release
\* build): the loop condition cell >= 0 never fails.  No cell at or above
\* num_cells is set in the source, so the scan next acts on the highest
\* transferable cell of the whole row; when none is left it spins forever.
RECURSIVE ReverseWrapped(_)
ReverseWrapped(st) ==
    LET T == {c \in st.src.cells : ~IsSet(st.dst, c)} IN
    IF T = {} THEN Scan(st.src, st.dst, st.rc, "hang")
    ELSE LET t == TransferCell(st, MaxOf(T)) IN
         IF t.outcome # "ok" \/ ToTransfer(t.rc) = 0 THEN t
         ELSE ReverseWrapped(t)

\* What `cell -= 1` (or `last - 1`) does at 0: a panic in a debug build,
\* a wrap to 2^32-1 in a release build.
Underflow(st, bld) ==
    IF bld = "debug" THEN Scan(st.src, st.dst, st.rc, "panic")
    ELSE ReverseWrapped(st)

\* The loop of reverse_fill_transfer_to: while cell >= first { ...; cell -= 1 }
RECURSIVE ReverseScan(_, _, _, _)
ReverseScan(st, cell, first, bld) ==
    IF cell < first THEN st
    ELSE LET t == IF Transferable(st.src, st.dst, cell)
                  THEN TransferCell(st, cell) ELSE st
             stop == Transferable(st.src, st.dst, cell)
                     /\ (t.outcome # "ok" \/ ToTransfer(t.rc) = 0)
         IN IF stop THEN t
            ELSE IF cell = 0 THEN Underflow(t, bld)
            ELSE ReverseScan(t, cell - 1, first, bld)

ReverseFillTransferTo(src, dst, count, period, bld) ==
    LET st == Scan(src, dst, TransferResultNew(count), "ok") IN
    IF period.last = 0 THEN Underflow(st, bld)
    ELSE ReverseScan(st, period.last - 1, period.first, bld)

\* The inner loop of smear_transfer_to: [st, run, stop] where run is
\* transferred_this_run and stop says that the function left the loop by
\* break or by Err.
RECURSIVE SmearScan(_, _, _, _, _, _)
SmearScan(st, cell, last, want, rate, run) ==
    IF cell > last THEN [st |-> st, run |-> run]
    ELSE LET want_allocated == F64Add(want, rate) IN
         IF F64GtInt(want_allocated, run) /\ Transferable(st.src, st.dst, cell)
         THEN LET t == TransferCell(st, cell) IN
              IF t.outcome # "ok" \/ ToTransfer(t.rc) = 0
              THEN [st |-> t, run |-> run + 1]
              ELSE SmearScan(t, cell + 1, last, want_allocated, rate, run + 1)
         ELSE SmearScan(st, cell + 1, last, want_allocated, rate, run)

\* Mutant of SmearPass: the rate is taken over one cell too many.
SmearPassLongPeriod(st, period) ==
    SmearScan(st, period.first, period.last, F64Zero,
              F64Div(ToTransfer(st.rc), PeriodLength(period) + 1), 0)

\* One pass of the outer loop.
SmearPass(st, period) ==
    SmearScan(st, period.first, period.last, F64Zero,
              F64Div(ToTransfer(st.rc), PeriodLength(period)), 0)

\* Mutant of SmearContinues: the zero-progress test is missing.
SmearContinuesWhileUnfilled(st, run) == st.outcome = "ok" /\ ToTransfer(st.rc) # 0

\* while transferred_this_run != 0 && rc.to_transfer() != 0
SmearContinues(st, run) == st.outcome = "ok" /\ run # 0 /\ ToTransfer(st.rc) # 0

RECURSIVE SmearLoop(_, _, _)
SmearLoop(st, run, period) ==
    IF ~SmearContinues(st, run) THEN st
    ELSE LET p == SmearPass(st, period) IN SmearLoop(p.st, p.run, period)

SmearTransferTo(src, dst, count, period) ==
    SmearLoop(Scan(src, dst, TransferResultNew(count), "ok"), 1, period)

(***************************************************************************)
(* ChartTime: week >= 1, optional day 1..5 and quarter 1..4.               *)
(***************************************************************************)
ChartTime(w, d, q) == [week |-> w, day |-> d, quarter |-> q]

UnwrapOr(o, x) == IF IsSome(o) THEN Unwrap(o) ELSE x

ToU32(ct) ==
    (ct.week - 1) * QuartersPerWeek + (UnwrapOr(ct.day, 1) - 1) * QuartersPerDay
        + UnwrapOr(ct.quarter, 1) - 1

Duration(ct) ==
    IF IsSome(ct.quarter) THEN 1
    ELSE IF IsSome(ct.day) THEN QuartersPerDay
    ELSE QuartersPerWeek

EndAsU32(ct) == ToU32(ct) + Duration(ct) - 1

(***************************************************************************)
(* IEEE-754 binary32 arithmetic, as far as the scheduler uses it.          *)
(*                                                                         *)
(* SmearProRata: a value is [m, e], m * 2^e with m < 2^24 (or m = 2^24     *)
(* after a round-up); the quotient of two small integers, its product      *)
(* with a small integer, and ceil.                                         *)
(*                                                                         *)
(* Management: the running sums of 0.2f32 are whole multiples of 2^-26     *)
(* below 32, held as that multiple; 0.2f32 is Fix32Fifth * 2^-26.          *)
(***************************************************************************)
Mantissa32 == 24

BitLen31(x) == CHOOSE n \in 0..31 : (n = 0 /\ x = 0) \/ (n > 0 /\ x \div 2^(n-1) = 1)

\* Round the integer x to 24 significant bits, ties to even; sticky says
\* that non-zero bits below x were dropped.  [m, e]: the value m * 2^e.
F32RoundInt(x, sticky) ==
    LET n == BitLen31(x) IN
    IF n <= Mantissa32 THEN [m |-> x, e |-> 0]
    ELSE LET p == 2^(n - Mantissa32)
             low == x % p
             half == p \div 2
             odd == (x \div p) % 2 = 1
             up == low > half \/ (low = half /\ (sticky \/ odd))
         IN [m |-> (x \div p) + (IF up THEN 1 ELSE 0), e |-> n - Mantissa32]

\* Long division, one bit per step, until 25 significant bits are known.
RECURSIVE F32DivBits(_, _, _, _)
F32DivBits(m, r, den, e) ==
    IF m >= 2^Mantissa32
    THEN LET x == F32RoundInt(m, r # 0) IN [m |-> x.m, e |-> x.e + e]
    ELSE F32DivBits(2 * m + (IF 2 * r >= den THEN 1 ELSE 0), (2 * r) % den, den, e - 1)

\* num as f32 / den as f32
F32Div(num, den) ==
    IF num = 0 THEN [m |-> 0, e |-> 0]
    ELSE IF num % den = 0 THEN F32RoundInt(num \div den, FALSE)
    ELSE F32DivBits(num \div den, num % den, den, 0)

\* (k as f32) * x
F32MulInt(k, x) ==
    LET y == F32RoundInt(k * x.m, FALSE) IN [m |-> y.m, e |-> y.e + x.e]

\* x.ceil() as an integer
F32Ceil(x) ==
    IF x.m = 0 THEN 0
    ELSE IF x.e >= 0 THEN x.m * 2^(x.e)
    ELSE IF 0 - x.e >= 31 THEN 1
    ELSE (x.m + 2^(0 - x.e) - 1) \div 2^(0 - x.e)

Fix32Scale == 2^26
Fix32Fifth == 13421773

Fix32Add(x, y) ==
    LET r == F32RoundInt(x + y, FALSE) IN r.m * 2^(r.e)

Fix32Ceil(x) == (x + Fix32Scale - 1) \div Fix32Scale

(***************************************************************************)
(* RootConfigData.  developers maps a name to DeveloperData:               *)
(* [cells, period, unallocated].                                           *)
(***************************************************************************)
OUTSOURCE == "outsource"

DeveloperNew(num_cells, period) ==
    [cells |-> SetRange(NewRow(num_cells), period).row, period |-> period,
     unallocated |-> 0]

\* DeveloperData::new as a Result: None for the Err of set_range.
DeveloperDataNew(num_cells, period) ==
    IF SetRange(NewRow(num_cells), period).ok
    THEN Some(DeveloperNew(num_cells, period))
    ELSE None

AddDeveloperOverwrites(rt, name, period) ==
    IF IsNone(DeveloperDataNew(rt.weeks * QuartersPerWeek, period))
    THEN [rt |-> rt, res |-> "Can't add developer"]
    ELSE [rt |-> [rt EXCEPT !.developers =
                     (name :> Unwrap(DeveloperDataNew(rt.weeks * QuartersPerWeek, period)))
                         @@ @],
          res |-> "ok"]

\* RootConfigData::add_developer: [rt, res]
AddDeveloper(rt, name, period) ==
    IF name \in DOMAIN rt.developers
    THEN [rt |-> rt, res |-> "Can't re-define a developer"]
    ELSE IF IsNone(DeveloperDataNew(rt.weeks * QuartersPerWeek, period))
    THEN [rt |-> rt, res |-> "Can't add developer"]
    ELSE [rt |-> [rt EXCEPT !.developers =
                     (name :> Unwrap(DeveloperDataNew(rt.weeks * QuartersPerWeek, period)))
                         @@ @],
          res |-> "ok"]

IsValidDeveloper(rt, name) == name = OUTSOURCE \/ name \in DOMAIN rt.developers

HasDevData(rt, name) == name \in DOMAIN rt.developers

\* get_dev_period
GetDevPeriod(rt, name) ==
    IF name \in DOMAIN rt.developers THEN Some(rt.developers[name].period) ELSE None

QuartersInChart(rt) == rt.weeks * QuartersPerWeek

\* Results of the node and root functions: "ok", an error message, or the
\* way the call never returned.
IsErr(res) == res \notin {"ok", "panic", "hang"}

\* The manager's weekly management transfer of transfer_management_resource:
\* acc is [rt, row, weekly, failures, ok].
MgmtQuarterly(rt, manager, q) ==
    LET others == {d \in DOMAIN rt.developers : d # manager /\ IsSet(rt.developers[d].cells, q)}
        sum[n \in 0..Cardinality(others)] ==
            IF n = 0 THEN 0 ELSE Fix32Add(sum[n - 1], Fix32Fifth)
    IN IF manager \in DOMAIN rt.developers /\ ~IsSet(rt.developers[manager].cells, q)
       THEN 0
       ELSE sum[Cardinality(others)]

\* The end of a week with the result t of the manager's fill_transfer_to:
\* total_failures += transfer_result.failed, or the Err of `?`.
MgmtTransferred(acc, manager, t) ==
    [rt |-> [acc.rt EXCEPT !.developers[manager].cells = t.src],
     row |-> t.dst,
     weekly |-> 0,
     failures |-> acc.failures + (IF t.outcome = "ok" THEN t.rc.failed ELSE 0),
     ok |-> t.outcome = "ok"]

\* if q % 20 == 19 { ... weekly_resource = 0.0 }
MgmtWeekEnd(acc, manager, q) ==
    IF q % QuartersPerWeek # 19 THEN acc
    ELSE IF manager \notin DOMAIN acc.rt.developers
    THEN [acc EXCEPT !.weekly = 0]
    ELSE MgmtTransferred(acc, manager,
             FillTransferTo(acc.rt.developers[manager].cells, acc.row,
                            Fix32Ceil(acc.weekly), Period(q - 19, q)))

\* The loop over q in 0 .. quarters_in_chart.
RECURSIVE MgmtLoop(_, _, _)
MgmtLoop(acc, manager, q) ==
    IF q >= QuartersInChart(acc.rt) \/ ~acc.ok THEN acc
    ELSE IF q < acc.rt.now THEN MgmtLoop(acc, manager, q + 1)
    ELSE MgmtLoop(MgmtWeekEnd([acc EXCEPT !.weekly =
                                  Fix32Add(@, MgmtQuarterly(acc.rt, manager, q))],
                              manager, q),
                  manager, q + 1)

MgmtResult(acc) ==
    [rt |-> acc.rt, row |-> acc.row,
     res |-> IF ~acc.ok THEN "Tried to transer too many cells"
             ELSE IF acc.failures # 0 THEN "Failed to allocate management resource"
             ELSE "ok"]

\* RootConfigData::transfer_management_resource: [rt, row, res]
TransferManagementResource(rt, row) ==
    MgmtResult(MgmtLoop([rt |-> rt, row |-> row, weekly |-> 0, failures |-> 0, ok |-> TRUE],
                        UnwrapOr(rt.manager, ""), 0))

(***************************************************************************)
(* NodeConfigData and its transfer functions.  Each returns                *)
(* [node, rt, res]: the node and the root as the call left them.           *)
(***************************************************************************)
Strategies == {"Management", "SmearProRata", "SmearRemaining", "FrontLoad",
               "BackLoad", "ProdSFR", "ProdSFR_part2"}

NodeNew(name, num_cells) ==
    [name |-> name, cells |-> NewRow(num_cells), resourcing |-> None, managed |-> TRUE,
     notes |-> << >>, dev |-> None, now_plan |-> None, done |-> << >>,
     resource_transferred |-> FALSE]

Ret(node, rt, res) == [node |-> node, rt |-> rt, res |-> res]

AddNoteLost(node, note) == node

AddNote(node, note) == [node EXCEPT !.notes = Append(@, note)]

DonePeriodFromStart(done) ==
    Period(ToU32(done.start), ToU32(done.start) + done.time - 1)

DonePeriod(done) ==
    IF done.time <= Duration(done.start)
    THEN Period(ToU32(done.start), EndAsU32(done.start))
    ELSE Period(ToU32(done.start), ToU32(done.start) + done.time - 1)

DoneSkipped(done, now, past) ==
    \/ past /\ ToU32(done.start) >= now
    \/ ~past /\ ToU32(done.start) < now

\* Mutant of AfterTransfer: the two rows are written back the wrong way round.
AfterTransferSwapsRows(node, rt, dev, t, res) ==
    Ret([node EXCEPT !.cells = t.src], [rt EXCEPT !.developers[dev].cells = t.dst], res)

\* The rows after a transfer t from dev's row to the node's row, and the
\* result res of the call so far.
AfterTransfer(node, rt, dev, t, res) ==
    Ret([node EXCEPT !.cells = t.dst], [rt EXCEPT !.developers[dev].cells = t.src], res)

\* The result of one done entry's fill_transfer_to.
DoneResult(t) ==
    IF t.outcome # "ok" THEN "Failed to add resource"
    ELSE IF t.rc.failed # 0 THEN "Failed to add quarters of resource"
    ELSE "ok"

DoneTransferred(r, t) == AfterTransfer(r.node, r.rt, Unwrap(r.node.dev), t, DoneResult(t))

\* The loop of transfer_done over self.done, from entry i; r is the call so far.
RECURSIVE TransferDoneFrom(_, _, _)
TransferDoneFrom(r, past, i) ==
    IF r.res # "ok" \/ i > Len(r.node.done) THEN r
    ELSE IF DoneSkipped(r.node.done[i], r.rt.now, past)
    THEN TransferDoneFrom(r, past, i + 1)
    ELSE TransferDoneFrom(
             DoneTransferred(r, FillTransferTo(r.rt.developers[Unwrap(r.node.dev)].cells,
                                               r.node.cells, r.node.done[i].time,
                                               DonePeriod(r.node.done[i]))),
             past, i + 1)

TransferDone(node, rt, past) ==
    IF IsSome(node.dev) /\ HasDevData(rt, Unwrap(node.dev))
    THEN TransferDoneFrom(Ret(node, rt, "ok"), past, 1)
    ELSE Ret(node, rt, "ok")

TransferPastDone(node, rt) == TransferDone(node, rt, TRUE)

TransferFutureDoneManagedSkipped(node, rt) == Ret(node, rt, "ok")

TransferFutureDoneManaged(node, rt) ==
    IF ~node.managed THEN Ret(node, rt, "ok") ELSE TransferDone(node, rt, FALSE)

TransferFutureDoneUnmanagedOfAll(node, rt) == TransferDone(node, rt, FALSE)

TransferFutureDoneUnmanaged(node, rt) ==
    IF node.managed THEN Ret(node, rt, "ok") ELSE TransferDone(node, rt, FALSE)

\* root.transfer_management_resource(&mut self.cells)?;
\* self.resource_transferred = true;
ManagementTransferred(node, m) ==
    IF m.res # "ok" THEN Ret([node EXCEPT !.cells = m.row], m.rt, m.res)
    ELSE Ret([node EXCEPT !.cells = m.row, !.resource_transferred = TRUE], m.rt, "ok")

TransferFutureManagementResource(node, rt) ==
    IF node.resourcing # Some("Management") THEN Ret(node, rt, "ok")
    ELSE IF IsNone(node.dev) THEN Ret([node EXCEPT !.resource_transferred = TRUE], rt, "ok")
    ELSE IF IsNone(rt.manager) THEN Ret(node, rt, "No manager defined in global config")
    ELSE IF Unwrap(rt.manager) # Unwrap(node.dev)
    THEN Ret(node, rt, "is not the configured manager")
    ELSE ManagementTransferred(node, TransferManagementResource(rt, node.cells))

\* SmearProRata: (remaining.length as f32 * (plan as f32 /
\* resource_period.length as f32)).ceil() - count_range(remaining) as f32.
\* Both terms are whole numbers, so the f32 difference is exact.
TimeToSpend(node, plan, resource_period, remaining_period) ==
    F32Ceil(F32MulInt(PeriodLength(remaining_period),
                      F32Div(plan, PeriodLength(resource_period))))
        - CountRange(node.cells, remaining_period)

\* The transfer that the match on the strategy makes.
StrategyTransfer(r, node, rt, dev, plan, left, resource_period, remaining_period, bld) ==
    LET src == rt.developers[dev].cells IN
    CASE r = "SmearProRata" ->
           SmearTransferTo(src, node.cells,
                           TimeToSpend(node, plan, resource_period, remaining_period),
                           remaining_period)
      [] r = "SmearRemaining" -> SmearTransferTo(src, node.cells, left, remaining_period)
      [] r = "FrontLoad" -> FillTransferTo(src, node.cells, left, remaining_period)
      [] r = "BackLoad" -> ReverseFillTransferTo(src, node.cells, left, remaining_period, bld)
      [] r = "ProdSFR" ->
           SmearTransferTo(src, node.cells, (left * SmearPercent) \div 100, remaining_period)
      [] r = "ProdSFR_part2" ->
           ReverseFillTransferTo(src, node.cells, left, remaining_period, bld)

\* self.resource_transferred = true, in every arm but ProdSFR part 1, as
\* soon as the transfer has returned Ok(transfer_result).
Latch(r, node, t) ==
    IF r = "ProdSFR" THEN node ELSE [node EXCEPT !.resource_transferred = TRUE]

\* Mutant of Transferred: the flag is set before the `?` on the transfer.
TransferredLatchesOnErr(r, node, rt, dev, t) ==
    IF t.outcome \in {"panic", "hang"} THEN AfterTransfer(node, rt, dev, t, t.outcome)
    ELSE IF t.outcome = "err"
    THEN AfterTransfer(Latch(r, node, t), rt, dev, t, "Tried to transer too many cells")
    ELSE IF t.rc.failed # 0
    THEN AfterTransfer(Latch(r, node, t),
                       [rt EXCEPT !.developers[dev].unallocated = @ + t.rc.failed],
                       dev, t, "days unallocated")
    ELSE AfterTransfer(Latch(r, node, t), rt, dev, t, "ok")

TransferredForgetsUnallocated(r, node, rt, dev, t) ==
    IF t.outcome \in {"panic", "hang"} THEN AfterTransfer(node, rt, dev, t, t.outcome)
    ELSE IF t.outcome = "err" THEN AfterTransfer(node, rt, dev, t, "Tried to transer too many cells")
    ELSE IF t.rc.failed # 0
    THEN AfterTransfer(Latch(r, node, t), rt, dev, t, "days unallocated")
    ELSE AfterTransfer(Latch(r, node, t), rt, dev, t, "ok")

\* transfer_future_resource after the transfer t: `?` on its Err, the
\* latch, then the test of transfer_result.failed.
Transferred(r, node, rt, dev, t) ==
    IF t.outcome \in {"panic", "hang"} THEN AfterTransfer(node, rt, dev, t, t.outcome)
    ELSE IF t.outcome = "err" THEN AfterTransfer(node, rt, dev, t, "Tried to transer too many cells")
    ELSE IF t.rc.failed # 0
    THEN AfterTransfer(Latch(r, node, t),
               [rt EXCEPT !.developers[dev].unallocated = @ + t.rc.failed],
               dev, t, "days unallocated")
    ELSE AfterTransfer(Latch(r, node, t), rt, dev, t, "ok")

\* Mutant of Allocate: the transfer runs over the developer's whole period
\* and not over the part of it from now on.
AllocateOverWholePeriod(node, rt, resourcing, dev, plan, left, resource_period, remaining_period, bld) ==
    LET r == IF IsNone(resourcing) THEN node.resourcing ELSE resourcing IN
    IF IsNone(r) THEN Ret(node, rt, "ResourcingStrategy not specified!")
    ELSE IF Unwrap(r) = "Management" THEN Ret(node, rt, "ok")
    ELSE IF Unwrap(r) = "SmearProRata"
            /\ TimeToSpend(node, plan, resource_period, remaining_period) < 0
    THEN Ret(node, rt, "Over-committed; update plan")
    ELSE Transferred(Unwrap(r), node, rt, dev,
                     StrategyTransfer(Unwrap(r), node, rt, dev, plan, left,
                                      resource_period, resource_period, bld))

\* transfer_future_resource from `if let Some(dev_data) = ...` on.
Allocate(node, rt, resourcing, dev, plan, left, resource_period, remaining_period, bld) ==
    LET r == IF IsNone(resourcing) THEN node.resourcing ELSE resourcing IN
    IF IsNone(r) THEN Ret(node, rt, "ResourcingStrategy not specified!")
    ELSE IF Unwrap(r) = "Management" THEN Ret(node, rt, "ok")
    ELSE IF Unwrap(r) = "SmearProRata"
            /\ TimeToSpend(node, plan, resource_period, remaining_period) < 0
    THEN Ret(node, rt, "Over-committed; update plan")
    ELSE Transferred(Unwrap(r), node, rt, dev,
                     StrategyTransfer(Unwrap(r), node, rt, dev, plan, left,
                                      resource_period, remaining_period, bld))

\* Mutant of AlreadyTransferred: the flag is never consulted.
AlreadyTransferredIgnored(node) == FALSE

\* if self.resource_transferred { return Ok(()); }
AlreadyTransferred(node) == node.resource_transferred

TransferFutureResource(node, rt, resourcing, bld) ==
    IF AlreadyTransferred(node) THEN Ret(node, rt, "ok")
    ELSE IF IsNone(node.now_plan) THEN Ret(node, rt, "ok")
    ELSE IF IsNone(node.dev) THEN Ret(node, rt, "ok")
    ELSE IF rt.now > QuartersInChart(rt) - 1 THEN Ret(node, rt, "panic")
    ELSE LET plan == Unwrap(node.now_plan)
             dev == Unwrap(node.dev)
             chart_period == Period(0, QuartersInChart(rt) - 1)
             already == CountRange(node.cells, chart_period)
             quarters_left_in_plan == IF plan > already THEN plan - already ELSE 0
             resource_period == UnwrapOr(GetDevPeriod(rt, dev), chart_period)
             remaining_period_opt ==
                 Intersect(Period(rt.now, QuartersInChart(rt) - 1), resource_period)
         IN IF IsNone(remaining_period_opt)
            THEN IF quarters_left_in_plan = 0 THEN Ret(node, rt, "ok")
                 ELSE Ret(node, rt, "Failed to write days because dev is not available.")
            ELSE IF ~HasDevData(rt, dev) THEN Ret(node, rt, "ok")
            ELSE Allocate(node, rt, resourcing, dev, plan, quarters_left_in_plan,
                          resource_period, Unwrap(remaining_period_opt), bld)

TransferFutureUnmanagedResourceOfAll(node, rt, bld) ==
    TransferFutureResource(node, rt, None, bld)

TransferFutureUnmanagedResource(node, rt, bld) ==
    IF node.managed THEN Ret(node, rt, "ok")
    ELSE TransferFutureResource(node, rt, None, bld)

TransferFutureRemainingResource(node, rt, bld) == TransferFutureResource(node, rt, None, bld)

TransferFutureSmear(node, rt, bld) ==
    IF IsNone(node.resourcing) THEN Ret(node, rt, "ok")
    ELSE IF Unwrap(node.resourcing) \in {"SmearRemaining", "SmearProRata", "ProdSFR"}
    THEN TransferFutureResource(node, rt, node.resourcing, bld)
    ELSE Ret(node, rt, "ok")

TransferFutureFrontload(node, rt, bld) ==
    IF IsNone(node.resourcing) THEN Ret(node, rt, "ok")
    ELSE IF Unwrap(node.resourcing) = "FrontLoad"
    THEN TransferFutureResource(node, rt, node.resourcing, bld)
    ELSE Ret(node, rt, "ok")

TransferFutureBackload(node, rt, bld) ==
    IF IsNone(node.resourcing) THEN Ret(node, rt, "ok")
    ELSE IF Unwrap(node.resourcing) = "BackLoad"
    THEN TransferFutureResource(node, rt, node.resourcing, bld)
    ELSE IF Unwrap(node.resourcing) = "ProdSFR"
    THEN TransferFutureResource(node, rt, Some("ProdSFR_part2"), bld)
    ELSE Ret(node, rt, "ok")

(***************************************************************************)
(* RowSpec: one transfer call on a pair of rows.  The arguments are drawn  *)
(* from every pair of SmallCells-wide rows with every period and count,    *)
(* and from week-sized rows (a free availability period, a few cells       *)
(* already committed in the destination).  fill and reverse-fill run in    *)
(* one step; smear runs one pass of its outer loop per step.               *)
(***************************************************************************)
Builds == {"debug", "release"}

Periods(n) == {p \in [first : 0..(n - 1), last : 0..(n - 1)] : p.first <= p.last}

SmallInputs ==
    {[src |-> Row(SmallCells, s), dst |-> Row(SmallCells, d), count |-> c, period |-> p] :
        s \in SUBSET (0..(SmallCells - 1)), d \in SUBSET (0..(SmallCells - 1)),
        c \in 0..SmallCells, p \in Periods(SmallCells)}

WidePeriods(n) == {Period(0, n - 1), Period(0, n - 3), Period(6, n - 1)}

WideInputs ==
    UNION {
      {[src |-> Row(n, PeriodCells(a)), dst |-> Row(n, d), count |-> c, period |-> p] :
          a \in {Period(0, n - 1), Period(2, n - 2)},
          d \in {{}, {1, n - 1}},
          c \in 0..(n + 1), p \in WidePeriods(n)} :
      n \in {QuartersPerWeek * w : w \in 1..MaxWeeks}}

RowInputs == SmallInputs \cup WideInputs

InitialScan(i) == Scan(i.src, i.dst, TransferResultNew(i.count), "ok")

SmearIdle == [active |-> FALSE, st |-> InitialScan([src |-> NewRow(0), dst |-> NewRow(0), count |-> 0]),
              run |-> 0, passes |-> 0]

SchedulerIdle ==
    /\ root = [weeks |-> 0, now |-> 0, manager |-> None, developers |-> << >>]
    /\ nodes = << >>
    /\ phase = 0
    /\ idx = 0
    /\ status = "idle"

RowInit ==
    /\ build = "any"
    /\ inp \in RowInputs
    /\ out = [op |-> "none", st |-> InitialScan(inp)]
    /\ sm = SmearIdle
    /\ SchedulerIdle

Fill ==
    /\ out.op = "none"
    /\ out' = [op |-> "fill",
               st |-> FillTransferTo(inp.src, inp.dst, inp.count, inp.period)]
    /\ UNCHANGED <<build, inp, sm, root, nodes, phase, idx, status>>

\* The call in a debug build and in a release build; out.op records which.
ReverseFill ==
    /\ out.op = "none"
    /\ \E b \in Builds :
         out' = [op |-> b,
                 st |-> ReverseFillTransferTo(inp.src, inp.dst, inp.count, inp.period, b)]
    /\ UNCHANGED <<build, inp, sm, root, nodes, phase, idx, status>>

SmearBegin ==
    /\ out.op = "none"
    /\ out' = [out EXCEPT !.op = "smearing"]
    /\ sm' = [active |-> TRUE, st |-> InitialScan(inp), run |-> 1, passes |-> 0]
    /\ UNCHANGED <<build, inp, root, nodes, phase, idx, status>>

SmearStep ==
    /\ sm.active
    /\ SmearContinues(sm.st, sm.run)
    /\ LET p == SmearPass(sm.st, inp.period) IN
       sm' = [active |-> TRUE, st |-> p.st, run |-> p.run, passes |-> sm.passes + 1]
    /\ UNCHANGED <<build, inp, out, root, nodes, phase, idx, status>>

SmearReturn ==
    /\ sm.active
    /\ ~SmearContinues(sm.st, sm.run)
    /\ out' = [op |-> "smear", st |-> sm.st]
    /\ sm' = [sm EXCEPT !.active = FALSE]
    /\ UNCHANGED <<build, inp, root, nodes, phase, idx, status>>

RowNext == Fill \/ ReverseFill \/ SmearBegin \/ SmearStep \/ SmearReturn

RowSpec == RowInit /\ [][RowNext]_vars

(***************************************************************************)
(* Properties of one transfer call (RowSpec).                              *)
(***************************************************************************)
\* The call has returned Ok(rc).
Returned == out.op \in {"fill", "debug", "release", "smear"} /\ out.st.outcome = "ok"

Moved == inp.src.cells \ out.st.src.cells

TransferableBefore == TransferableIn(inp.src, inp.dst, inp.period)

\* The k lowest / highest members of S.
Lowest(S, k) == {c \in S : Cardinality({x \in S : x < c}) < k}
Highest(S, k) == {c \in S : Cardinality({x \in S : x > c}) < k}

\* C2: a returned result r has r.transferred + r.failed == count, for each
\* of the three transfers.
C2_TransferredPlusFailed ==
    Returned => out.st.rc.transferred + out.st.rc.failed = inp.count

C2_Witness ==
    /\ Returned /\ out.op = "smear"
    /\ out.st.rc.transferred >= 2 /\ out.st.rc.failed >= 1

\* The frame and effect of a returned call: exactly r.transferred cells
\* move, all inside the period, each transferable before the call; no other
\* cell of either row changes.
FrameHolds ==
    /\ Cardinality(Moved) = out.st.rc.transferred
    /\ Moved \subseteq PeriodCells(inp.period)
    /\ Moved \subseteq inp.src.cells \ inp.dst.cells
    /\ out.st.src.cells = inp.src.cells \ Moved
    /\ out.st.dst.cells = inp.dst.cells \cup Moved
    /\ Count(out.st.src) = Count(inp.src) - out.st.rc.transferred
    /\ Count(out.st.dst) = Count(inp.dst) + out.st.rc.transferred

\* C3: the frame and effect hold for each of the three transfers.
C3_FrameAllTransfers == Returned => FrameHolds

\* C5: reverse_fill_transfer_to moves the r.transferred highest
\* transferable cells of the period, the period's last cell first.
C5_ReverseTakesHighest ==
    (Returned /\ out.op \in Builds) =>
        Moved = Highest(TransferableBefore, out.st.rc.transferred)

\* C6: fill_transfer_to moves exactly the r.transferred lowest transferable
\* cells of the period.
C6_FillTakesLowest ==
    (Returned /\ out.op = "fill") =>
        Moved = Lowest(TransferableBefore, out.st.rc.transferred)

C6_Witness ==
    /\ Returned /\ out.op = "fill"
    /\ out.st.rc.transferred >= 2
    /\ Moved # TransferableBefore
    /\ \E c \in PeriodCells(inp.period) : c \notin Moved /\ c < MaxOf(Moved)

\* 2 * to_transfer, plus one while the last pass made progress: the loop
\* runs only while both parts are non-zero.
SmearMeasure(s) == 2 * ToTransfer(s.st.rc) + (IF s.run # 0 THEN 1 ELSE 0)

\* C7: smear_transfer_to terminates: a pass of its outer loop starts only
\* while the request is unfilled and the previous pass moved a cell, and
\* every pass strictly lowers SmearMeasure, which is never negative.
C7_SmearTerminates ==
    [][sm'.passes # sm.passes =>
          /\ sm.run # 0 /\ ToTransfer(sm.st.rc) # 0
          /\ SmearMeasure(sm') < SmearMeasure(sm)
          /\ SmearMeasure(sm') >= 0]_vars

C7_Witness ==
    /\ out.op = "smear" /\ sm.passes >= 2 /\ out.st.rc.transferred >= 1
    /\ ToTransfer(out.st.rc) # 0 /\ sm.run = 0

\* The case of C8: every cell of the period transferable, 1 <= count <= length.
AllFree ==
    /\ out.op = "smear"
    /\ TransferableBefore = PeriodCells(inp.period)
    /\ inp.count >= 1 /\ inp.count <= PeriodLength(inp.period)

CeilDiv(a, b) == (a + b - 1) \div b

MovedInFirst(k) == Cardinality({c \in Moved : c < inp.period.first + k})

\* C8 as claimed: on a free period smear transfers count cells in one pass,
\* ceil(k * count / length) of them among the first k cells, for every k.
C8_SmearEvenExact ==
    AllFree =>
        /\ out.st.rc.transferred = inp.count /\ sm.passes = 1
        /\ \A k \in 1..PeriodLength(inp.period) :
              MovedInFirst(k) = CeilDiv(k * inp.count, PeriodLength(inp.period))

\* C8 as amended: the same, except that where k * count / length is a whole
\* number the running f64 target may already exceed it, and then one cell
\* more lies among the first k cells.
C8_SmearEvenWithinOne ==
    AllFree =>
        /\ out.st.rc.transferred = inp.count /\ sm.passes = 1
        /\ \A k \in 1..PeriodLength(inp.period) :
              LET L == PeriodLength(inp.period)
                  e == CeilDiv(k * inp.count, L)
              IN \/ MovedInFirst(k) = e
                 \/ /\ MovedInFirst(k) = e + 1
                    /\ (k * inp.count) % L = 0
                    /\ e < inp.count

C8_Witness ==
    /\ AllFree /\ inp.count = 4 /\ inp.period = Period(0, 2 * QuartersPerWeek - 1)
    /\ \A w \in 0..1 :
          Cardinality({c \in Moved : c \div QuartersPerWeek = w}) >= 1
    /\ MovedInFirst(QuartersPerWeek) = 3

(***************************************************************************)
(* Spec: a scheduler run.  get_index_html calls call_on_children once per  *)
(* phase; call_on_children applies the phase's function to every non-root  *)
(* node in tree order and writes an Err into that node's notes.  One step  *)
(* of the model is one such application.                                   *)
(***************************************************************************)
Phases ==
    <<"transfer_past_done",
      "transfer_future_done_managed",
      "transfer_future_done_unmanaged",
      "transfer_future_management_resource",
      "transfer_future_unmanaged_resource",
      "transfer_future_smear",
      "transfer_future_frontload",
      "transfer_future_backload">>

\* The function a phase applies to a node (transfer_future_remaining_resource
\* is a function of NodeConfigData that no phase of the run applies).
PhaseFn(name, node, rt, bld) ==
    CASE name = "transfer_past_done" -> TransferPastDone(node, rt)
      [] name = "transfer_future_done_managed" -> TransferFutureDoneManaged(node, rt)
      [] name = "transfer_future_done_unmanaged" -> TransferFutureDoneUnmanaged(node, rt)
      [] name = "transfer_future_management_resource" ->
           TransferFutureManagementResource(node, rt)
      [] name = "transfer_future_unmanaged_resource" ->
           TransferFutureUnmanagedResource(node, rt, bld)
      [] name = "transfer_future_smear" -> TransferFutureSmear(node, rt, bld)
      [] name = "transfer_future_frontload" -> TransferFutureFrontload(node, rt, bld)
      [] name = "transfer_future_backload" -> TransferFutureBackload(node, rt, bld)
      [] name = "transfer_future_remaining_resource" ->
           TransferFutureRemainingResource(node, rt, bld)

Dev == "dev"
Mgr == "mgr"

DoneEntry(start, time) == [start |-> start, time |-> time]

\* done lists that add_done accepts on a chart of q quarters.
DoneChoices(q) ==
    { d \in { << >>,
              <<DoneEntry(ChartTime(1, None, None), 3)>>,
              <<DoneEntry(ChartTime(1, Some(2), None), 6)>>,
              <<DoneEntry(ChartTime(1, Some(1), Some(3)), 2),
                DoneEntry(ChartTime(2, None, None), 3)>> } :
        \A i \in DOMAIN d : d[i].time > 0 /\ ToU32(d[i].start) + d[i].time - 1 < q }

MakeNode(name, q, dev, resourcing, managed, now_plan, done) ==
    [NodeNew(name, q) EXCEPT !.dev = dev, !.resourcing = resourcing,
                             !.managed = managed, !.now_plan = now_plan, !.done = done]

PlanChoices == {5, 30}

FirstNodes(q) ==
    {MakeNode("n1", q, Some(Dev), Some(r), m, Some(p), d) :
        r \in Strategies \ {"ProdSFR_part2"}, m \in BOOLEAN, p \in PlanChoices,
        d \in DoneChoices(q)}
    \cup
    {MakeNode("n1", q, Some(Mgr), Some("Management"), TRUE, None, << >>),
     MakeNode("n1", q, Some(Mgr), Some("FrontLoad"), TRUE, Some(5), << >>),
     MakeNode("n1", q, None, Some("Management"), TRUE, None, << >>),
     MakeNode("n1", q, Some(OUTSOURCE), Some("SmearRemaining"), FALSE, Some(5), << >>),
     MakeNode("n1", q, Some(Dev), None, FALSE, Some(5), << >>),
     MakeNode("n1", q, Some(Dev), Some("BackLoad"), TRUE, None,
              <<DoneEntry(ChartTime(1, None, None), 3)>>),
     MakeNode("n1", q, Some(Dev), Some("ProdSFR"), TRUE, Some(QuartersPerWeek - QuartersPerDay), << >>)}

SecondNodes(q) ==
    {MakeNode("n2", q, Some(Mgr), Some("Management"), TRUE, None, << >>),
     MakeNode("n2", q, Some(Dev), Some("FrontLoad"), TRUE, Some(5),
              <<DoneEntry(ChartTime(1, None, None), 3)>>),
     MakeNode("n2", q, Some(Dev), Some("BackLoad"), FALSE, Some(30), << >>),
     MakeNode("n2", q, Some(Dev), Some("SmearRemaining"), FALSE, Some(5),
              <<DoneEntry(ChartTime(1, Some(1), Some(3)), 2)>>)}

\* Charts of one week and of MaxWeeks weeks; now at the start, inside the
\* first week, and at the start of the second week.
WeekChoices == {1, MaxWeeks}

NowChoices == {0, 6, QuartersPerWeek}

RowIdle ==
    /\ inp = [src |-> NewRow(0), dst |-> NewRow(0), count |-> 0, period |-> Period(0, 0)]
    /\ out = [op |-> "idle", st |-> InitialScan(inp)]
    /\ sm = SmearIdle

\* The developers' availability: the manager for the whole chart, the
\* developer for the whole chart or for days 2 to 5 of the first week.
DevPeriods(w, m) ==
    IF IsNone(m) THEN {Period(0, QuartersPerWeek * w - 1)}
    ELSE {Period(0, QuartersPerWeek * w - 1), Period(4, QuartersPerWeek - 1)}

\* Only reverse_fill_transfer_to behaves differently in the two builds.
UsesReverseFill(node) == node.resourcing \in {Some("BackLoad"), Some("ProdSFR")}

Init ==
    /\ \E w \in WeekChoices, n \in NowChoices, m \in {None, Some(Mgr)} :
       \E dp \in DevPeriods(w, m) :
          /\ n < QuartersPerWeek * w
          /\ root = [weeks |-> w, now |-> n, manager |-> m,
                     developers |->
                        (Mgr :> DeveloperNew(QuartersPerWeek * w,
                                             Period(0, QuartersPerWeek * w - 1)))
                        @@ (Dev :> DeveloperNew(QuartersPerWeek * w, dp))]
          /\ \E a \in FirstNodes(QuartersPerWeek * w), b \in SecondNodes(QuartersPerWeek * w) :
                nodes = <<a, b>>
    /\ build \in (IF \E i \in DOMAIN nodes : UsesReverseFill(nodes[i])
                  THEN Builds ELSE {"debug"})
    /\ phase = 1
    /\ idx = 1
    /\ status = "running"
    /\ RowIdle

\* One iteration of the loop of call_on_children with the result r of
\* node_fn: the node and the root as node_fn left them, the error (if any)
\* added to the node's notes.  A panic or a hang ends the run.
Visit(r) ==
    /\ nodes' = [nodes EXCEPT ![idx] = IF IsErr(r.res) THEN AddNote(r.node, r.res)
                                                       ELSE r.node]
    /\ root' = r.rt
    /\ status' = IF r.res = "panic" THEN "panicked"
                 ELSE IF r.res = "hang" THEN "hung"
                 ELSE status
    /\ idx' = idx + 1
    /\ UNCHANGED <<build, inp, out, sm, phase>>

AtPhase(name) ==
    /\ status = "running"
    /\ phase \in DOMAIN Phases /\ Phases[phase] = name
    /\ idx \in DOMAIN nodes

StepPastDone ==
    AtPhase("transfer_past_done") /\ Visit(TransferPastDone(nodes[idx], root))

StepFutureDoneManaged ==
    /\ AtPhase("transfer_future_done_managed")
    /\ Visit(TransferFutureDoneManaged(nodes[idx], root))

StepFutureDoneUnmanaged ==
    /\ AtPhase("transfer_future_done_unmanaged")
    /\ Visit(TransferFutureDoneUnmanaged(nodes[idx], root))

StepManagement ==
    /\ AtPhase("transfer_future_management_resource")
    /\ Visit(TransferFutureManagementResource(nodes[idx], root))

StepUnmanagedResource ==
    /\ AtPhase("transfer_future_unmanaged_resource")
    /\ Visit(TransferFutureUnmanagedResource(nodes[idx], root, build))

StepSmear ==
    AtPhase("transfer_future_smear") /\ Visit(TransferFutureSmear(nodes[idx], root, build))

StepFrontload ==
    /\ AtPhase("transfer_future_frontload")
    /\ Visit(TransferFutureFrontload(nodes[idx], root, build))

StepBackload ==
    /\ AtPhase("transfer_future_backload")
    /\ Visit(TransferFutureBackload(nodes[idx], root, build))

\* call_on_children has returned Ok: the next phase starts at the first node.
NextPhase ==
    /\ status = "running" /\ idx > Len(nodes) /\ phase < Len(Phases)
    /\ phase' = phase + 1
    /\ idx' = 1
    /\ UNCHANGED <<build, inp, out, sm, root, nodes, status>>

\* The last phase has returned: the chart is generated from the rows.
Finish ==
    /\ status = "running" /\ idx > Len(nodes) /\ phase = Len(Phases)
    /\ status' = "done"
    /\ UNCHANGED <<build, inp, out, sm, root, nodes, phase, idx>>

Next ==
    \/ StepPastDone
    \/ StepFutureDoneManaged
    \/ StepFutureDoneUnmanaged
    \/ StepManagement
    \/ StepUnmanagedResource
    \/ StepSmear
    \/ StepFrontload
    \/ StepBackload
    \/ NextPhase
    \/ Finish

Spec == Init /\ [][Next]_vars

(***************************************************************************)
(* Properties of a scheduler run (Spec).                                   *)
(***************************************************************************)
AssignedTo(d) == {i \in DOMAIN nodes : nodes[i].dev = Some(d)}

TaskCells(i) == nodes[i].cells.cells

DevCells(d) == root.developers[d].cells.cells

\* C1: for every developer d and cell c, at most one task row among the
\* nodes assigned to d has c set, and c is never set both in d's capacity
\* row and in such a task row.
C1_CellConsumedOnce ==
    \A d \in DOMAIN root.developers :
        /\ \A i, j \in AssignedTo(d) : i # j => TaskCells(i) \cap TaskCells(j) = {}
        /\ \A i \in AssignedTo(d) : TaskCells(i) \cap DevCells(d) = {}

C1_Witness ==
    /\ status = "done"
    /\ AssignedTo(Dev) = {1, 2}
    /\ TaskCells(1) # {} /\ TaskCells(2) # {}
    /\ DevCells(Dev) = {}
    /\ root.developers[Dev].unallocated > 0

\* C4: every developer capacity row only loses cells: after any step its
\* set cells are a subset of those before, and the developers stay the same.
C4_DevRowsOnlyLose ==
    [][/\ DOMAIN root'.developers = DOMAIN root.developers
       /\ \A d \in DOMAIN root.developers :
             root'.developers[d].cells.cells \subseteq DevCells(d)]_vars

C4_Witness ==
    /\ status = "done"
    /\ DevCells(Dev) # PeriodCells(root.developers[Dev].period)
    /\ DevCells(Dev) # {}
    /\ DevCells(Mgr) # PeriodCells(root.developers[Mgr].period)

\* The phases named transfer_future_*: all but transfer_past_done.
FuturePhases == {Phases[k] : k \in 2..Len(Phases)}

\* The future-allocation calls: those that go through transfer_future_resource.
AllocationCalls ==
    {"transfer_future_unmanaged_resource", "transfer_future_remaining_resource",
     "transfer_future_smear", "transfer_future_frontload", "transfer_future_backload"}

\* Applying the phase's function to node i now changes nothing and returns Ok.
NoOp(name, i) == PhaseFn(name, nodes[i], root, build) = Ret(nodes[i], root, "ok")

\* C9 as claimed: re-running any future-transfer phase on a node whose
\* resource_transferred flag is true is a no-op that returns success.
C9_AnyFuturePhaseNoOp ==
    \A i \in DOMAIN nodes :
        nodes[i].resource_transferred => \A name \in FuturePhases : NoOp(name, i)

\* C9 as amended: re-running any future-allocation call (unmanaged_resource,
\* remaining_resource, smear, frontload, backload) on a node whose
\* resource_transferred flag is true is a no-op that returns success.
C9_AllocationCallNoOp ==
    \A i \in DOMAIN nodes :
        nodes[i].resource_transferred => \A name \in AllocationCalls : NoOp(name, i)

\* The smear phase has revisited a node that the unmanaged phase flagged,
\* and without the flag the call would not have been a no-op.
C9_Witness ==
    /\ status = "running" /\ Phases[phase] = "transfer_future_smear"
    /\ \E i \in DOMAIN nodes :
          /\ i < idx
          /\ nodes[i].resource_transferred /\ ~nodes[i].managed
          /\ LET n == [nodes[i] EXCEPT !.resource_transferred = FALSE]
             IN PhaseFn("transfer_future_smear", n, root, build) # Ret(n, root, "ok")

Flag(i) == nodes[i].resource_transferred

\* C10 as claimed: resource_transferred is never reset, and it is set only
\* by a call that returns success: a call that returns an error (and so
\* adds a note) leaves it false.
C10_LatchOnlyOnSuccess ==
    [][\A i \in DOMAIN nodes :
          /\ Flag(i) => nodes'[i].resource_transferred
          /\ nodes'[i].notes # nodes[i].notes => ~nodes'[i].resource_transferred]_vars

\* C10 as amended: resource_transferred is never reset; it is set only by
\* the call on that node, and only by a call that returns success or that
\* fails with "days unallocated" after its transfer returned; a call that
\* fails with any other error leaves it false.
C10_LatchWhenTransferReturned ==
    [][\A i \in DOMAIN nodes :
          /\ Flag(i) => nodes'[i].resource_transferred
          /\ (~Flag(i) /\ nodes'[i].resource_transferred) => i = idx
          /\ nodes'[i].notes # nodes[i].notes =>
                \/ ~nodes'[i].resource_transferred
                \/ /\ ~Flag(i)
                   /\ nodes'[i].notes = Append(nodes[i].notes, "days unallocated")]_vars

C10_Witness ==
    \E i \in DOMAIN nodes :
        /\ Flag(i)
        /\ nodes[i].notes = <<"days unallocated">>
        /\ \E j \in DOMAIN nodes :
              /\ ~Flag(j) /\ nodes[j].notes # << >>
              /\ nodes[j].now_plan # None

(***************************************************************************)
(* DevsSpec: the root-level nodes of the configuration.  It starts in a    *)
(* [devs] node, on a fresh root or on one whose [global] node has been     *)
(* read: one add_developer per attribute of the [devs] node, then further  *)
(* [global] and [devs] nodes in any order until the load ends.             *)
(***************************************************************************)
DevNames == {Dev, Mgr}

\* The time ranges of the [devs] attributes: some inside every chart, some
\* beyond the shorter charts, one beyond every chart.
DevPeriodChoices ==
    {Period(0, QuartersPerWeek - 1),
     Period(QuartersPerDay, QuartersPerWeek - 1),
     Period(QuartersPerDay, QuartersPerDay),
     Period(0, QuartersPerWeek * MaxWeeks - 1),
     Period(QuartersPerWeek * MaxWeeks - 1, QuartersPerWeek * MaxWeeks - 1),
     Period(0, QuartersPerWeek * MaxWeeks)}

DevsInit ==
    /\ \E w \in 0 .. MaxWeeks, m \in {None, Some(Mgr)} :
          root = [weeks |-> w, now |-> 0, manager |-> m, developers |-> [d \in {} |-> 0]]
    /\ nodes = << >>
    /\ build = "debug"
    /\ phase = 1
    /\ idx = 1
    /\ status = "reading"
    /\ RowIdle

\* One attribute of the [devs] node: the Err of add_developer ends the read.
ReadDev ==
    /\ status = "reading"
    /\ \E name \in DevNames, period \in DevPeriodChoices :
          /\ root' = AddDeveloper(root, name, period).rt
          /\ out' = [op |-> "add_developer", name |-> name, period |-> period,
                     res |-> AddDeveloper(root, name, period).res]
          /\ status' = IF AddDeveloper(root, name, period).res = "ok"
                       THEN "reading" ELSE "failed"
    /\ UNCHANGED <<build, inp, sm, nodes, phase, idx>>

\* No attribute is left: the manager must be one of the developers.
DevsEnd ==
    /\ status = "reading"
    /\ status' = IF IsSome(root.manager) /\ ~IsValidDeveloper(root, Unwrap(root.manager))
                 THEN "failed" ELSE "read"
    /\ out' = [op |-> "read_devs_config"]
    /\ UNCHANGED <<build, inp, sm, root, nodes, phase, idx>>

\* The next root-level node is another [devs] node.
ReadDevsConfig ==
    /\ status = "read"
    /\ status' = "reading"
    /\ out' = [op |-> "devs"]
    /\ UNCHANGED <<build, inp, sm, root, nodes, phase, idx>>

\* One attribute of a [global] node: weeks, now (a chart time, stored as
\* its to_u32) or manager; any other key is an Err.  Nothing is checked
\* when the node ends.
ReadGlobalAttribute ==
    /\ status = "read"
    /\ \/ \E w \in 0 .. MaxWeeks :
             /\ root' = [root EXCEPT !.weeks = w]
             /\ out' = [op |-> "global", key |-> "weeks"]
             /\ status' = status
       \/ \E w \in 1 .. (MaxWeeks + 1), d \in {None, Some(5)} :
             /\ root' = [root EXCEPT !.now = ToU32(ChartTime(w, d, None))]
             /\ out' = [op |-> "global", key |-> "now"]
             /\ status' = status
       \/ \E m \in {Dev, Mgr, OUTSOURCE} :
             /\ root' = [root EXCEPT !.manager = Some(m)]
             /\ out' = [op |-> "global", key |-> "manager"]
             /\ status' = status
       \/ /\ root' = root
          /\ out' = [op |-> "global", key |-> "unrecognised"]
          /\ status' = "failed"
    /\ UNCHANGED <<build, inp, sm, nodes, phase, idx>>

\* No root-level node is left and no read has failed: the load succeeds.
LoadEnd ==
    /\ status = "read"
    /\ status' = "loaded"
    /\ out' = [op |-> "new_from_config"]
    /\ UNCHANGED <<build, inp, sm, root, nodes, phase, idx>>

DevsNext ==
    \/ ReadDev
    \/ DevsEnd
    \/ ReadDevsConfig
    \/ ReadGlobalAttribute
    \/ LoadEnd

DevsSpec == DevsInit /\ [][DevsNext]_vars

(***************************************************************************)
(* Properties of the phase steps (Spec).  A step of phase p on node idx    *)
(* relates nodes[idx] and root to nodes'[idx] and root'.                   *)
(***************************************************************************)
\* The step applies the function of phase `name` to node idx.
StepOf(name) == AtPhase(name) /\ idx' = idx + 1

\* The call of the step returned an Err (call_on_children wrote a note).
Noted == nodes'[idx].notes # nodes[idx].notes

NotedAs(msg) == nodes'[idx].notes = Append(nodes[idx].notes, msg)

\* The call of the step returned (no panic, no hang).
StepReturned == status' = "running"

ChartPeriodOf(rt) == Period(0, QuartersInChart(rt) - 1)

\* left: the quarters of the plan not yet in the node's row.
Left(node) ==
    LET already == Cardinality(node.cells.cells \cap PeriodCells(ChartPeriodOf(root)))
    IN IF Unwrap(node.now_plan) > already THEN Unwrap(node.now_plan) - already ELSE 0

\* remaining: the cells of the developer's period from now on.
RemainingCells(node) ==
    {c \in PeriodCells(root.developers[Unwrap(node.dev)].period) : c >= root.now}

\* The node has a plan and a registered developer, and is not yet flagged:
\* a future-allocation call on it gets as far as computing `remaining`.
Allocatable(node) ==
    /\ ~node.resource_transferred
    /\ IsSome(node.now_plan)
    /\ IsSome(node.dev) /\ Unwrap(node.dev) \in DOMAIN root.developers

Gained == Cardinality(nodes'[idx].cells.cells) - Cardinality(nodes[idx].cells.cells)

IsProdSFR(node) == node.resourcing = Some("ProdSFR")

\* C11, first part: the smear-phase call on a ProdSFR node smears
\* floor(left*20/100) cells (fewer only when it reports a shortfall) and
\* does not latch.
ProdSFRSmearStep ==
    (StepOf("transfer_future_smear") /\ IsProdSFR(nodes[idx]) /\ Allocatable(nodes[idx])
       /\ RemainingCells(nodes[idx]) # {})
    => /\ ~nodes'[idx].resource_transferred
       /\ Gained <= (Left(nodes[idx]) * 20) \div 100
       /\ ~Noted => Gained = (Left(nodes[idx]) * 20) \div 100

\* C11, second part: the backload-phase call reverse-fills the demand still
\* outstanding (fewer only when it reports a shortfall) and latches.
ProdSFRBackloadStep ==
    (StepOf("transfer_future_backload") /\ IsProdSFR(nodes[idx]) /\ Allocatable(nodes[idx])
       /\ RemainingCells(nodes[idx]) # {} /\ StepReturned /\ Left(nodes[idx]) > 0)
    => /\ nodes'[idx].resource_transferred
       /\ Gained <= Left(nodes[idx])
       /\ ~Noted => Gained = Left(nodes[idx])

\* C11, third part: when the developer has at least `left` free cells from
\* now on, the node ends the backload phase with cells.count() == now_plan.
ProdSFREndsAtPlan ==
    (StepOf("transfer_future_backload") /\ IsProdSFR(nodes[idx]) /\ Allocatable(nodes[idx])
       /\ Left(nodes[idx]) > 0
       /\ Cardinality(DevCells(Unwrap(nodes[idx].dev)) \cap RemainingCells(nodes[idx]))
             >= Left(nodes[idx]))
    => /\ StepReturned
       /\ Cardinality(nodes'[idx].cells.cells) = Unwrap(nodes[idx].now_plan)

\* C11: a ProdSFR node is allocated in two parts: the smear-phase call
\* smears floor(left*20/100) cells and does not latch, the backload-phase
\* call reverse-fills the outstanding demand and latches, and with enough
\* free capacity from now on the node ends with cells.count() == now_plan.
C11_ProdSFRSplit ==
    [][ProdSFRSmearStep /\ ProdSFRBackloadStep /\ ProdSFREndsAtPlan]_vars

PhaseIndex(name) == CHOOSE i \in DOMAIN Phases : Phases[i] = name

\* The phases that allocate from the plan rather than from done entries.
PlanDriven == phase >= PhaseIndex("transfer_future_unmanaged_resource")

\* The step is a plan-driven allocation that was attempted on node idx:
\* the node's row, flag or notes changed.
AttemptOn(i) == PlanDriven /\ idx = i /\ idx' = i + 1 /\ nodes'[i] # nodes[i]

IsLoaded(node) == node.resourcing \in {Some("FrontLoad"), Some("BackLoad")}

IsSmeared(node) ==
    node.resourcing \in {Some("SmearRemaining"), Some("SmearProRata"), Some("ProdSFR")}

SmearPhaseOver == phase > PhaseIndex("transfer_future_smear")

DoneErrors == {"Failed to add resource", "Failed to add quarters of resource"}

DoneSatisfied(node, done) ==
    Cardinality(node.cells.cells \cap PeriodCells(DonePeriod(done))) >= done.time

\* Every done entry of the node has had its transfer: the cells are in the
\* node's row, or transfer_done reported the entry it failed on.
DonePerformed(node) ==
    \/ IsNone(node.dev)
    \/ IsSome(node.dev) /\ Unwrap(node.dev) \notin DOMAIN root.developers
    \/ \E k \in DOMAIN node.notes : node.notes[k] \in DoneErrors
    \/ \A e \in DOMAIN node.done : DoneSatisfied(node, node.done[e])

\* No plan-driven allocation has acted yet.
NothingAllocated ==
    /\ \A i \in DOMAIN nodes : ~nodes[i].resource_transferred
    /\ \A d \in DOMAIN root.developers : root.developers[d].unallocated = 0

\* C13: every done-entry transfer (past and future) is performed before any
\* plan-driven future-allocation transfer: a plan-driven call acts only when
\* every node's done entries have had their transfer, and the done phases
\* run while nothing has been allocated.
C13_DoneBeforePlan ==
    [][/\ (\E i \in DOMAIN nodes : AttemptOn(i)) => \A j \in DOMAIN nodes : DonePerformed(nodes[j])
       /\ (idx' = idx + 1 /\ phase <= PhaseIndex("transfer_future_done_unmanaged"))
             => NothingAllocated]_vars

\* A node with a past and a future done entry holds both and, on top of
\* them, cells allocated from its plan.
C13_Witness ==
    \E i \in DOMAIN nodes :
        /\ Len(nodes[i].done) = 2 /\ nodes[i].notes = << >>
        /\ ToU32(nodes[i].done[1].start) < root.now /\ ToU32(nodes[i].done[2].start) >= root.now
        /\ \A e \in DOMAIN nodes[i].done : DoneSatisfied(nodes[i], nodes[i].done[e])
        /\ nodes[i].resource_transferred
        /\ Cardinality(nodes[i].cells.cells) > nodes[i].done[1].time + nodes[i].done[2].time

\* What the function of the current phase returns on node idx.
PhaseResult == PhaseFn(Phases[phase], nodes[idx], root, build).res

\* An error of the phase function on node idx is written to that node once,
\* to no other node, and the loop goes on to the next node.
ErrorNoted(res) ==
    (res \notin {"ok", "panic", "hang"})
    => /\ nodes'[idx].notes = Append(nodes[idx].notes, res)
       /\ \A j \in DOMAIN nodes : j # idx => nodes'[j].notes = nodes[j].notes
       /\ status' = "running" /\ phase' = phase

\* C14: when a phase function returns an error on a node, exactly one note
\* carrying that error is appended to that node, the phase still visits
\* every remaining node, and the phase as a whole does not fail.
C14_ErrorBecomesNote ==
    /\ [][(idx' = idx + 1) => ErrorNoted(PhaseResult)]_vars
    /\ [][phase' # phase => (idx = Len(nodes) + 1 /\ status' = "running")]_vars

\* The first node carries the error of a call, and the phase has gone on to
\* serve the second node.
C14_Witness ==
    /\ Len(nodes[1].notes) = 1 /\ nodes[1].notes[1] = "Over-committed; update plan"
    /\ idx = 3 /\ Phases[phase] = "transfer_future_smear"
    /\ nodes[2].resource_transferred /\ nodes[2].notes = << >>
    /\ status = "running"

\* Node i gets its plan-driven allocation in the current phase and in no
\* earlier one.
ServedHere(i) ==
    \/ Phases[phase] = "transfer_future_unmanaged_resource" /\ ~nodes[i].managed
    \/ Phases[phase] = "transfer_future_smear" /\ nodes[i].managed
          /\ nodes[i].resourcing \in {Some("SmearRemaining"), Some("SmearProRata")}
    \/ Phases[phase] = "transfer_future_frontload" /\ nodes[i].managed
          /\ nodes[i].resourcing = Some("FrontLoad")
    \/ Phases[phase] = "transfer_future_backload" /\ nodes[i].managed
          /\ nodes[i].resourcing = Some("BackLoad")

\* Node i ended its allocation with demand it could not place.
EndedShort(i) ==
    /\ nodes[i].notes # << >>
    /\ nodes[i].notes[Len(nodes[i].notes)] = "days unallocated"
    /\ IsSome(nodes[i].dev) /\ Unwrap(nodes[i].dev) \in DOMAIN root.developers

\* C15: earlier nodes win contention: of two nodes on the same developer
\* served in the same allocation phase, if the earlier one ends the phase
\* with unsatisfied demand in its remaining period, the later one receives
\* no cell of that period in that phase.
C15_EarlierNodeWins ==
    [][\A i, j \in DOMAIN nodes :
          (/\ i < j /\ idx = j /\ idx' = j + 1 /\ PlanDriven
           /\ ServedHere(i) /\ ServedHere(j) /\ EndedShort(i)
           /\ nodes[j].dev = nodes[i].dev)
          => (nodes'[j].cells.cells \ nodes[j].cells.cells) \cap RemainingCells(nodes[i]) = {}]_vars

\* The step runs transfer_management_resource for node idx.
ManagementStep ==
    /\ StepOf("transfer_future_management_resource")
    /\ nodes[idx].resourcing = Some("Management")
    /\ IsSome(nodes[idx].dev) /\ nodes[idx].dev = root.manager
    /\ Unwrap(root.manager) \in DOMAIN root.developers

WeekCells(w) == (w * QuartersPerWeek) .. (w * QuartersPerWeek + QuartersPerWeek - 1)

WeeksFromNow == {w \in 0 .. (root.weeks - 1) : w * QuartersPerWeek + 19 >= root.now}

\* N_w: the (developer, quarter) pairs of week w at or after now where a
\* non-manager developer's cell is set and the manager's cell is set too.
Managees(w) ==
    {dq \in (DOMAIN root.developers \ {Unwrap(root.manager)}) \X WeekCells(w) :
        /\ dq[2] >= root.now
        /\ IsSet(root.developers[dq[1]].cells, dq[2])
        /\ IsSet(root.developers[Unwrap(root.manager)].cells, dq[2])}

ManagementDemand(w) == CeilDiv(Cardinality(Managees(w)), 5)

\* The manager's cells of week w that can go to the management row.
ManagerFree(w) ==
    {c \in WeekCells(w) : /\ IsSet(root.developers[Unwrap(root.manager)].cells, c)
                          /\ ~IsSet(nodes[idx].cells, c)}

ManagementMoved(w) ==
    (nodes'[idx].cells.cells \ nodes[idx].cells.cells) \cap WeekCells(w)

\* C16: transfer_management_resource moves, for each week w from now on,
\* exactly ceil(0.2 * N_w) cells from the manager's row to the management
\* row inside week w, and it fails when some week's demand cannot be met.
C16_ManagementPerWeek ==
    [][ManagementStep =>
          IF \A w \in WeeksFromNow : Cardinality(ManagerFree(w)) >= ManagementDemand(w)
          THEN /\ ~Noted
               /\ \A w \in WeeksFromNow : Cardinality(ManagementMoved(w)) = ManagementDemand(w)
               /\ nodes'[idx].cells.cells \ nodes[idx].cells.cells
                     = DevCells(Unwrap(root.manager)) \ root'.developers[Unwrap(root.manager)].cells.cells
          ELSE Noted]_vars

\* The step runs transfer_done for node idx.
DoneStep ==
    /\ \/ StepOf("transfer_past_done")
       \/ StepOf("transfer_future_done_managed")
       \/ StepOf("transfer_future_done_unmanaged")
    /\ IsSome(nodes[idx].dev) /\ Unwrap(nodes[idx].dev) \in DOMAIN root.developers

\* The entries the phase picks: past ones, or future ones of the managed or
\* of the unmanaged nodes.
DoneSelected(e) ==
    LET start == ToU32(nodes[idx].done[e].start)
    IN CASE Phases[phase] = "transfer_past_done" -> start < root.now
         [] Phases[phase] = "transfer_future_done_managed" ->
                nodes[idx].managed /\ start >= root.now
         [] Phases[phase] = "transfer_future_done_unmanaged" ->
                ~nodes[idx].managed /\ start >= root.now
         [] OTHER -> FALSE

\* The cells C17 gives to a done entry: the span of its start, or `time`
\* cells from the start when the time is longer than the span.
DoneCells(done) ==
    IF done.time <= Duration(done.start)
    THEN ToU32(done.start) .. EndAsU32(done.start)
    ELSE ToU32(done.start) .. (ToU32(done.start) + done.time - 1)

DoneTransferable(e) ==
    (DevCells(Unwrap(nodes[idx].dev)) \cap DoneCells(nodes[idx].done[e]))
        \ nodes[idx].cells.cells

DoneFull(e) == Cardinality(DoneTransferable(e)) >= nodes[idx].done[e].time

\* Entry e is processed: it is selected and no selected entry before it failed.
DoneProcessed(e) ==
    /\ DoneSelected(e)
    /\ \A k \in 1 .. (e - 1) : DoneSelected(k) => DoneFull(k)

DoneMoved(e) ==
    (nodes'[idx].cells.cells \ nodes[idx].cells.cells) \cap DoneCells(nodes[idx].done[e])

\* C17: each processed done entry moves exactly `time` cells, the lowest
\* transferable ones of [start, start.end] when time <= duration and of
\* [start, start + time - 1] otherwise, from the developer's row to the
\* node's; the call fails when fewer than `time` cells are transferable.
C17_DoneEntryFills ==
    [][DoneStep =>
          /\ \A e \in DOMAIN nodes[idx].done :
                (DoneProcessed(e) /\ DoneFull(e))
                => /\ DoneMoved(e) = Lowest(DoneTransferable(e), nodes[idx].done[e].time)
                   /\ DoneMoved(e) = (DevCells(Unwrap(nodes[idx].dev))
                                        \ root'.developers[Unwrap(nodes[idx].dev)].cells.cells)
                                     \cap DoneCells(nodes[idx].done[e])
          /\ Noted <=> \E e \in DOMAIN nodes[idx].done : DoneProcessed(e) /\ ~DoneFull(e)]_vars

\* A week-long done entry of 3 quarters has taken the developer's first
\* three cells of the week, which do not start at the week's first cell.
C17_Witness ==
    /\ nodes[1].done = <<DoneEntry(ChartTime(1, None, None), 3)>>
    /\ root.developers[Dev].period.first = 4
    /\ nodes[1].cells.cells = {4, 5, 6} /\ nodes[1].notes = << >>
    /\ phase = 1 /\ idx = 2

\* The function of the current phase calls transfer_future_resource on
\* node idx.
CallsAllocation ==
    \/ Phases[phase] = "transfer_future_unmanaged_resource" /\ ~nodes[idx].managed
    \/ Phases[phase] = "transfer_future_smear" /\ IsSmeared(nodes[idx])
    \/ Phases[phase] = "transfer_future_frontload" /\ nodes[idx].resourcing = Some("FrontLoad")
    \/ Phases[phase] = "transfer_future_backload"
          /\ nodes[idx].resourcing \in {Some("BackLoad"), Some("ProdSFR")}

\* The call of the step finds the developer's period over before now.
NoPeriodLeft ==
    /\ PlanDriven /\ idx' = idx + 1 /\ CallsAllocation
    /\ Allocatable(nodes[idx]) /\ RemainingCells(nodes[idx]) = {}

NothingChanged ==
    /\ root' = root
    /\ nodes'[idx].cells = nodes[idx].cells
    /\ nodes'[idx].resource_transferred = nodes[idx].resource_transferred

RemainingPeriod(node) ==
    Unwrap(Intersect(Period(root.now, QuartersInChart(root) - 1),
                     root.developers[Unwrap(node.dev)].period))

\* The count that the call of the current phase asks its transfer for.
Demand(node) ==
    IF node.resourcing = Some("SmearProRata")
    THEN TimeToSpend(node, Unwrap(node.now_plan),
                     root.developers[Unwrap(node.dev)].period, RemainingPeriod(node))
    ELSE IF node.resourcing = Some("ProdSFR") /\ Phases[phase] # "transfer_future_backload"
    THEN (Left(node) * SmearPercent) \div 100
    ELSE Left(node)

\* The call of the step makes a transfer, and the transfer returns a result.
TransferReturns ==
    /\ PlanDriven /\ idx' = idx + 1 /\ CallsAllocation
    /\ Allocatable(nodes[idx]) /\ RemainingCells(nodes[idx]) # {}
    /\ IsSome(nodes[idx].resourcing) /\ nodes[idx].resourcing # Some("Management")
    /\ Demand(nodes[idx]) >= 0
    /\ StepReturned
    /\ ~NotedAs("Tried to transer too many cells")

Unallocated(rt, node) == rt.developers[Unwrap(node.dev)].unallocated

\* failed: what the transfer was asked for and did not move.
Failed == Demand(nodes[idx]) - Gained

\* C19: a call whose transfer ends with failed # 0 returns an error and adds
\* `failed` to the developer's unallocated counter, and the cells already
\* transferred stay where they are; a call whose transfer ends with
\* failed = 0 returns success.
C19_FailedIsReported ==
    [][TransferReturns =>
          /\ nodes[idx].cells.cells \subseteq nodes'[idx].cells.cells
          /\ nodes'[idx].cells.cells \ nodes[idx].cells.cells
                = DevCells(Unwrap(nodes[idx].dev))
                     \ root'.developers[Unwrap(nodes[idx].dev)].cells.cells
          /\ IF Failed # 0
             THEN /\ NotedAs("days unallocated")
                  /\ Unallocated(root', nodes[idx]) = Unallocated(root, nodes[idx]) + Failed
             ELSE /\ ~Noted
                  /\ Unallocated(root', nodes[idx]) = Unallocated(root, nodes[idx])]_vars

\* A FrontLoad call has failed part of its demand: the node keeps the cells
\* it got, carries the error, and the shortfall is on the developer's counter.
C19_Witness ==
    \E i \in DOMAIN nodes :
        /\ nodes[i].resourcing = Some("FrontLoad") /\ nodes[i].dev = Some(Dev)
        /\ nodes[i].notes = <<"days unallocated">>
        /\ nodes[i].cells.cells # {}
        /\ root.developers[Dev].unallocated
              = Unwrap(nodes[i].now_plan) - Cardinality(nodes[i].cells.cells)
        /\ root.developers[Dev].unallocated > 0

(***************************************************************************)
(* Properties of add_developer (DevsSpec).                                 *)
(***************************************************************************)
\* The step is a call of add_developer; out' holds its arguments and result.
AddDeveloperStep == status = "reading" /\ out'.op = "add_developer"

\* C20: a new developer's row has exactly the cells of its period set;
\* adding a developer whose period reaches beyond the chart, or whose name
\* is already registered, fails and leaves the developer map unchanged.
C20_AddDeveloper ==
    [][AddDeveloperStep =>
          IF \/ out'.name \in DOMAIN root.developers
             \/ out'.period.last >= QuartersPerWeek * root.weeks
          THEN out'.res # "ok" /\ root'.developers = root.developers
          ELSE /\ out'.res = "ok"
               /\ DOMAIN root'.developers = DOMAIN root.developers \cup {out'.name}
               /\ root'.developers[out'.name].cells.cells
                     = out'.period.first .. out'.period.last
               /\ root'.developers[out'.name].period = out'.period
               /\ \A d \in DOMAIN root.developers :
                     root'.developers[d] = root.developers[d]]_vars

\* A developer was added with its period's cells, and a second definition
\* of the same name with another period has been refused.
C20_Witness ==
    /\ out.op = "add_developer" /\ out.res = "Can't re-define a developer"
    /\ out.name \in DOMAIN root.developers
    /\ root.developers[out.name].period # out.period
    /\ root.developers[out.name].cells.cells
          = PeriodCells(root.developers[out.name].period)
    /\ status = "failed"

(***************************************************************************)
(* CellsSpec: two rows, inp.src and inp.dst, of different widths, under    *)
(* any sequence of set, unset, set_range and transfers from src to dst.    *)
(* out records the last call: its name, whether its cell lay beyond the    *)
(* row it was made on, and whether it returned Ok.  The cells of the calls *)
(* lie inside and beyond both rows; once a call has panicked or hung no    *)
(* further call is made.                                                   *)
(***************************************************************************)
CellPeriods == {p \in [first : 0..SmallCells, last : 0..SmallCells] : p.first <= p.last}

\* The periods of the transfers: from the first or second cell to one of
\* the last cells of the rows, or one cell beyond.
TransferPeriods ==
    {p \in CellPeriods : p.first <= 1 /\ p.last >= SmallCells - 2}

CellsInit ==
    /\ inp = [src |-> NewRow(SmallCells), dst |-> NewRow(SmallCells - 1)]
    /\ out = [op |-> "new", beyond |-> FALSE, ok |-> TRUE]
    /\ build = "any"
    /\ sm = SmearIdle
    /\ SchedulerIdle

CellsSet ==
    /\ out.op \notin {"panic", "hang"}
    /\ \E w \in {"src", "dst"}, c \in 0 .. (SmallCells + 1) :
          /\ inp' = [inp EXCEPT ![w] = SetCell(inp[w], c).row]
          /\ out' = [op |-> "set", beyond |-> c >= inp[w].num_cells,
                     ok |-> SetCell(inp[w], c).ok]
    /\ UNCHANGED <<build, sm, root, nodes, phase, idx, status>>

CellsUnset ==
    /\ out.op \notin {"panic", "hang"}
    /\ \E w \in {"src", "dst"}, c \in 0 .. (SmallCells + 1) :
          /\ inp' = [inp EXCEPT ![w] = UnsetCell(inp[w], c).row]
          /\ out' = [op |-> "unset", beyond |-> c >= inp[w].num_cells,
                     ok |-> UnsetCell(inp[w], c).ok]
    /\ UNCHANGED <<build, sm, root, nodes, phase, idx, status>>

CellsSetRange ==
    /\ out.op \notin {"panic", "hang"}
    /\ \E w \in {"src", "dst"}, p \in CellPeriods :
          /\ inp' = [inp EXCEPT ![w] = SetRange(inp[w], p).row]
          /\ out' = [op |-> "set_range", beyond |-> p.last >= inp[w].num_cells,
                     ok |-> SetRange(inp[w], p).ok]
    /\ UNCHANGED <<build, sm, root, nodes, phase, idx, status>>

\* The rows and the record of a transfer that ended as the scan st.
CellsTransferred(name, st) ==
    /\ inp' = [inp EXCEPT !.src = st.src, !.dst = st.dst]
    /\ out' = [op |-> IF st.outcome \in {"panic", "hang"} THEN st.outcome ELSE name,
               beyond |-> FALSE, ok |-> st.outcome = "ok"]

CellsFill ==
    /\ out.op \notin {"panic", "hang"}
    /\ \E c \in {0, 1, SmallCells}, p \in TransferPeriods :
          CellsTransferred("fill", FillTransferTo(inp.src, inp.dst, c, p))
    /\ UNCHANGED <<build, sm, root, nodes, phase, idx, status>>

CellsReverseFill ==
    /\ out.op \notin {"panic", "hang"}
    /\ \E c \in {0, 1, SmallCells}, p \in TransferPeriods, b \in Builds :
          CellsTransferred("reverse", ReverseFillTransferTo(inp.src, inp.dst, c, p, b))
    /\ UNCHANGED <<build, sm, root, nodes, phase, idx, status>>

CellsSmear ==
    /\ out.op \notin {"panic", "hang"}
    /\ \E c \in {0, 1, SmallCells}, p \in TransferPeriods :
          CellsTransferred("smear", SmearTransferTo(inp.src, inp.dst, c, p))
    /\ UNCHANGED <<build, sm, root, nodes, phase, idx, status>>

CellsNext ==
    \/ CellsSet
    \/ CellsUnset
    \/ CellsSetRange
    \/ CellsFill
    \/ CellsReverseFill
    \/ CellsSmear

CellsSpec == CellsInit /\ [][CellsNext]_vars

(***************************************************************************)
(* Properties of the cell operations (CellsSpec).                          *)
(***************************************************************************)
\* is_set(c) is false for every c >= num_cells.
NothingSetBeyond(row) == \A c \in 0 .. (SmallCells + 1) : c >= row.num_cells => ~IsSet(row, c)

\* C21: after any sequence of set, unset, set_range and transfer operations
\* set(c) and unset(c) with c >= num_cells fail and leave the row unchanged,
\* and is_set(c) is false for every c >= num_cells.
C21_CellsWithinRow ==
    /\ [](NothingSetBeyond(inp.src) /\ NothingSetBeyond(inp.dst))
    /\ [][(out'.op \in {"set", "unset"} /\ out'.beyond)
             => (~out'.ok /\ inp' = inp)]_vars

\* set on a cell beyond the row has failed, on rows that set_range and a
\* transfer have filled before.
C21_Witness ==
    /\ out.op = "set" /\ ~out.ok /\ out.beyond
    /\ Count(inp.src) > 0 /\ Count(inp.dst) = inp.dst.num_cells

(***************************************************************************)
(* ChartPeriod::union, ChartTime and the weekly numbers of a row.          *)
(***************************************************************************)
\* ChartPeriod::union, branch by branch.
Union(self, other) ==
    IF self.first >= other.first /\ self.first <= other.last
    THEN IF self.last > other.last
         THEN Some(Period(other.first, self.last))
         ELSE Some(Period(other.first, other.last))
    ELSE IF other.first >= self.first /\ other.first <= self.last
    THEN IF other.last > self.last
         THEN Some(Period(self.first, other.last))
         ELSE Some(Period(self.first, self.last))
    ELSE None

FromU32DayFromZero(q) ==
    [week |-> (q \div 20) + 1,
     day |-> Some((q % 20) \div 4),
     quarter |-> Some((q - (q \div 20) * 20 - ((q % 20) \div 4) * 4) + 1)]

\* ChartTime::from_u32.
FromU32(q) ==
    [week |-> (q \div 20) + 1,
     day |-> Some(((q % 20) \div 4) + 1),
     quarter |-> Some((q - (q \div 20) * 20 - ((q % 20) \div 4) * 4) + 1)]

\* ChartRow::get_weekly_numbers.  With num_cells = 0 the subtraction
\* underflows: a debug build panics there, a release build wraps to
\* 214748365 weeks and panics on the unwrap of ChartPeriod::new(4294967280, 4).
GetWeeklyNumbers(row) ==
    IF row.num_cells = 0
    THEN [outcome |-> "panic", weeks |-> << >>]
    ELSE [outcome |-> "ok",
          weeks |-> [w \in 1 .. (1 + ((row.num_cells - 1) \div 20)) |->
                       CountRange(row, Period((w - 1) * 20, w * 20))]]

(***************************************************************************)
(* Plan entries [when, plan, suffix] and the plan lookup.                  *)
(***************************************************************************)
\* (20.0 * 52.0 / 12.0) as f32 is PcmDivisor * 2^-PcmShift.
PcmDivisor == 11359573
PcmShift == 17

\* The loop of get_plan_internal from entry i on: found is the last entry
\* so far with entry.when <= when.
RECURSIVE PlanFound(_, _, _, _)
PlanFound(vec, i, when, found) ==
    IF i > Len(vec) THEN found
    ELSE PlanFound(vec, i + 1, when,
                   IF when >= vec[i].when THEN Some(vec[i]) ELSE found)

\* The scaling of a plan with a suffix by the developer's duration, in f32.
PlanScaled(entry, duration) ==
    IF entry.suffix = None THEN entry.plan
    ELSE IF entry.suffix = Some("pcy")
    THEN F32Ceil(F32Div(entry.plan * duration, 20 * 52))
    ELSE F32Ceil(F32Div(entry.plan * duration * 2^PcmShift, PcmDivisor))

GetPlanInternalFirstMatch(duration, when, vec) ==
    IF PlanFound(vec, 1, when, None) = None THEN None
    ELSE Some(PlanScaled(vec[CHOOSE i \in DOMAIN vec :
                                 /\ when >= vec[i].when
                                 /\ \A j \in 1 .. (i - 1) : when < vec[j].when],
                         duration))

\* NodeConfigData::get_plan_internal; duration is what
\* root.get_plan_dev_duration(dev) returns.
GetPlanInternal(duration, when, vec) ==
    IF PlanFound(vec, 1, when, None) = None THEN None
    ELSE Some(PlanScaled(Unwrap(PlanFound(vec, 1, when, None)), duration))

(***************************************************************************)
(* derive_dev.  The non-root nodes are held in pre-order, as descendants() *)
(* visits them: tree[n] is [name, dev, parent], parent = 0 for a child of  *)
(* the root.                                                               *)
(***************************************************************************)
TreeSize == 3

\* node.ancestors() up to the root: the node itself and its ancestors.
RECURSIVE Ancestors(_, _)
Ancestors(tree, n) ==
    IF n = 0 THEN {} ELSE {n} \cup Ancestors(tree, tree[n].parent)

FoundDevOwnOnly(rt, tree, n) ==
    IF n = 0 THEN None
    ELSE IF tree[n].dev # None THEN tree[n].dev
    ELSE IF IsValidDeveloper(rt, tree[n].name) THEN Some(tree[n].name)
    ELSE None

\* The scan of derive_dev from node n upwards: the first get_dev that
\* returns a value (the node's dev, else its name when that is a valid
\* developer); the scan breaks at the root.
RECURSIVE FoundDev(_, _, _)
FoundDev(rt, tree, n) ==
    IF n = 0 THEN None
    ELSE IF tree[n].dev # None THEN tree[n].dev
    ELSE IF IsValidDeveloper(rt, tree[n].name) THEN Some(tree[n].name)
    ELSE FoundDev(rt, tree, tree[n].parent)

\* derive_dev on node i: set_dev with what the scan found; an Err of
\* set_dev leaves the node as it was.
DeriveDev(rt, tree, i) ==
    IF FoundDev(rt, tree, i) = None THEN tree
    ELSE IF ~IsValidDeveloper(rt, Unwrap(FoundDev(rt, tree, i))) THEN tree
    ELSE [tree EXCEPT ![i].dev = FoundDev(rt, tree, i)]

(***************************************************************************)
(* CallsSpec: calls of the functions above on an input drawn by Init: one  *)
(* call of a pure function, a sequence of earliest-start and latest-end    *)
(* attributes on a new node, or the derive_dev pass over a tree.           *)
(***************************************************************************)
\* The inputs: rows of up to MaxWeeks weeks with cells set around the week
\* boundaries; pairs of periods; quarter indices; a new node; plan lists of
\* up to two entries with a lookup time and a developer duration; trees of
\* TreeSize nodes with the developers dev and mgr registered.

CallsInit ==
    /\ inp \in {[kind |-> "row", row |-> Row(n, cs \cap (0 .. (n - 1)))] :
                   n \in {0, 1, QuartersPerWeek, QuartersPerWeek + 1,
                          QuartersPerWeek * MaxWeeks},
                   cs \in SUBSET {0, QuartersPerWeek - 1, QuartersPerWeek,
                                  QuartersPerWeek + 1, QuartersPerWeek * MaxWeeks - 1}}
             \cup [kind : {"periods"}, p : CellPeriods, q : CellPeriods]
             \cup [kind : {"quarter"}, q : 0 .. (QuartersPerWeek * (MaxWeeks + 1) - 1)]
             \cup [kind : {"node"}, earliest_start : {0},
                   latest_end : {QuartersPerWeek * w : w \in 0 .. MaxWeeks}]
             \cup [kind : {"plan"},
                   vec : UNION {[1 .. n -> [when : {0, QuartersPerWeek},
                                            plan : {7, 13, 52},
                                            suffix : {None, Some("pcy"), Some("pcm")}]] :
                                   n \in 0 .. 2},
                   when : {0, QuartersPerWeek - 1, QuartersPerWeek},
                   duration : {0, QuartersPerWeek, 4 * QuartersPerWeek}]
             \cup {[kind |-> "tree", rt |-> [developers |-> [d \in {Dev, Mgr} |-> d]],
                    config |-> t, tree |-> t, next |-> 1] :
                   t \in {t \in [1 .. TreeSize ->
                                    [name : {Dev, "task"},
                                     dev : {None, Some(Mgr), Some(OUTSOURCE)},
                                     parent : 0 .. (TreeSize - 1)]] :
                             /\ t[1].parent = 0
                             /\ \A n \in 2 .. TreeSize :
                                   t[n].parent \in {0} \cup Ancestors(t, n - 1)}}
    /\ out = [op |-> "new"]
    /\ build = "any"
    /\ sm = SmearIdle
    /\ SchedulerIdle

CallGetWeeklyNumbers ==
    /\ out.op = "new"
    /\ inp.kind = "row"
    /\ out' = [op |-> "get_weekly_numbers", res |-> GetWeeklyNumbers(inp.row)]
    /\ UNCHANGED <<build, inp, sm, root, nodes, phase, idx, status>>

\* The done figure of generate_weekly_output:
\*   let time_until_now = ChartPeriod::new(0, root_data.get_now()-1).unwrap();
\*   let done = self.cells.count_range(&time_until_now);
\* At now = 0 the subtraction underflows: a debug build panics; a release
\* build wraps to 2^32-1, ChartPeriod::new accepts [0, 2^32-1], and
\* count_range's `period.get_last() + 1` wraps back to 0, so its loop runs
\* over 0 .. 0 and counts nothing.  `last` of the period is reported modulo
\* 2^32 as the signed value -1.
DoneUntilNow(row, now, bld) ==
    IF now = 0
    THEN IF bld = "debug"
         THEN [outcome |-> "panic", underflow |-> TRUE, last |-> 0, done |-> 0]
         ELSE [outcome |-> "ok", underflow |-> TRUE, last |-> -1,
               done |-> Cardinality({c \in row.cells : c >= 0 /\ c < (-1) + 1})]
    ELSE [outcome |-> "ok", underflow |-> FALSE, last |-> now - 1,
          done |-> CountRange(row, Period(0, now - 1))]

\* The done figure of a node's row for a now, in a debug build and in a
\* release build.
CallDone ==
    /\ out.op = "new"
    /\ inp.kind = "row"
    /\ \E now \in {0, 1, QuartersPerWeek}, b \in Builds :
         out' = [op |-> "done", now |-> now, bld |-> b,
                 res |-> DoneUntilNow(inp.row, now, b)]
    /\ UNCHANGED <<build, inp, sm, root, nodes, phase, idx, status>>

\* p.intersect(q) and q.intersect(p).
CallIntersect ==
    /\ out.op = "new"
    /\ inp.kind = "periods"
    /\ out' = [op |-> "intersect", res |-> Intersect(inp.p, inp.q),
               rev |-> Intersect(inp.q, inp.p)]
    /\ UNCHANGED <<build, inp, sm, root, nodes, phase, idx, status>>

CallUnion ==
    /\ out.op = "new"
    /\ inp.kind = "periods"
    /\ out' = [op |-> "union", res |-> Union(inp.p, inp.q)]
    /\ UNCHANGED <<build, inp, sm, root, nodes, phase, idx, status>>

\* ChartTime::from_u32(q) and to_u32 of the result.
CallFromU32 ==
    /\ out.op = "new"
    /\ inp.kind = "quarter"
    /\ out' = [op |-> "from_u32", res |-> FromU32(inp.q),
               back |-> ToU32(FromU32(inp.q))]
    /\ UNCHANGED <<build, inp, sm, root, nodes, phase, idx, status>>

\* An earliest-start attribute on the node: it only ever raises the value.
CallSetEarliestStart ==
    /\ inp.kind = "node"
    /\ \E w \in 1 .. MaxWeeks, d \in {None, Some(1), Some(5)} :
          inp' = [inp EXCEPT !.earliest_start =
                     IF ToU32(ChartTime(w, d, None)) > @
                     THEN ToU32(ChartTime(w, d, None)) ELSE @]
    /\ out' = [op |-> "set_earliest_start"]
    /\ UNCHANGED <<build, sm, root, nodes, phase, idx, status>>

\* A latest-end attribute on the node: it only ever lowers the value.
CallSetLatestEnd ==
    /\ inp.kind = "node"
    /\ \E w \in 1 .. MaxWeeks, d \in {None, Some(1), Some(5)} :
          inp' = [inp EXCEPT !.latest_end =
                     IF EndAsU32(ChartTime(w, d, None)) < @
                     THEN EndAsU32(ChartTime(w, d, None)) ELSE @]
    /\ out' = [op |-> "set_latest_end"]
    /\ UNCHANGED <<build, sm, root, nodes, phase, idx, status>>

\* get_plan or get_default_plan on the list inp.vec.
CallGetPlan ==
    /\ out.op = "new"
    /\ inp.kind = "plan"
    /\ out' = [op |-> "get_plan", res |-> GetPlanInternal(inp.duration, inp.when, inp.vec)]
    /\ UNCHANGED <<build, inp, sm, root, nodes, phase, idx, status>>

\* call_on_children(derive_dev): derive_dev on the next node in pre-order.
CallDeriveDev ==
    /\ inp.kind = "tree"
    /\ inp.next <= Len(inp.tree)
    /\ inp' = [inp EXCEPT !.tree = DeriveDev(inp.rt, @, inp.next), !.next = @ + 1]
    /\ out' = [op |-> "derive_dev"]
    /\ UNCHANGED <<build, sm, root, nodes, phase, idx, status>>

CallsNext ==
    \/ CallDeriveDev
    \/ CallGetWeeklyNumbers
    \/ CallIntersect
    \/ CallUnion
    \/ CallFromU32
    \/ CallSetEarliestStart
    \/ CallSetLatestEnd
    \/ CallGetPlan
    \/ CallDone

CallsSpec == CallsInit /\ [][CallsNext]_vars

(***************************************************************************)
(* Properties of the pure functions (CallsSpec).                           *)
(***************************************************************************)
RECURSIVE SumSeq(_)
SumSeq(s) == IF s = << >> THEN 0 ELSE Head(s) + SumSeq(Tail(s))

\* The set cells of week w (from 0): [20w, 20w+19] clipped to the row.
SetInWeek(row, w) ==
    Cardinality({c \in row.cells : c >= 20 * w /\ c <= 20 * w + 19 /\ c < row.num_cells})

\* C22: get_weekly_numbers returns a vector of length ceil(num_cells/20)
\* whose element w is the number of set cells in [20w, 20w+19] clipped to
\* the row, so the elements sum to count().
C22_WeeklyNumbers ==
    out.op = "get_weekly_numbers" =>
        /\ out.res.outcome = "ok"
        /\ Len(out.res.weeks) = CeilDiv(inp.row.num_cells, 20)
        /\ \A w \in DOMAIN out.res.weeks : out.res.weeks[w] = SetInWeek(inp.row, w - 1)
        /\ SumSeq(out.res.weeks) = Count(inp.row)

\* The periods share a cell.
ShareCell(p, q) == PeriodCells(p) \cap PeriodCells(q) # {}

Larger(a, b) == IF a > b THEN a ELSE b
Smaller(a, b) == IF a < b THEN a ELSE b

\* C23: p.intersect(q) = q.intersect(p); the result, when present, is
\* [max(p.first,q.first), min(p.last,q.last)] and is no longer than the
\* shorter of p and q; it is none exactly when p and q share no cell.
C23_Intersect ==
    out.op = "intersect" =>
        /\ out.res = out.rev
        /\ (out.res = None) <=> ~ShareCell(inp.p, inp.q)
        /\ out.res # None =>
              /\ Unwrap(out.res) = Period(Larger(inp.p.first, inp.q.first),
                                          Smaller(inp.p.last, inp.q.last))
              /\ PeriodLength(Unwrap(out.res))
                    <= Smaller(PeriodLength(inp.p), PeriodLength(inp.q))

\* Overlapping periods of which neither holds the other have been intersected.
C23_Witness ==
    /\ out.op = "intersect"
    /\ out.res # None
    /\ inp.p.first > inp.q.first /\ inp.p.last > inp.q.last

\* One period ends at the cell immediately before the other starts.
Touch(p, q) == p.last + 1 = q.first \/ q.last + 1 = p.first

\* C24: p.union(q) is [min(p.first,q.first), max(p.last,q.last)] whenever p
\* and q overlap or touch, and none otherwise.
C24_Union ==
    out.op = "union" =>
        out.res = IF ShareCell(inp.p, inp.q) \/ Touch(inp.p, inp.q)
                  THEN Some(Period(Smaller(inp.p.first, inp.q.first),
                                   Larger(inp.p.last, inp.q.last)))
                  ELSE None

\* C25: from_u32(q).to_u32() = q, and the chart time has week >= 1, day in
\* 1..5 and quarter in 1..4.
C25_RoundTrip ==
    out.op = "from_u32" =>
        /\ out.back = inp.q
        /\ out.res.week >= 1
        /\ out.res.day # None /\ Unwrap(out.res.day) \in 1 .. 5
        /\ out.res.quarter # None /\ Unwrap(out.res.quarter) \in 1 .. 4

\* The last quarter of the last day of a later week has made the round trip.
C25_Witness ==
    /\ out.op = "from_u32"
    /\ out.res.week > 1
    /\ out.res.day = Some(5) /\ out.res.quarter = Some(4)

\* C28: after any sequence of earliest-start and latest-end attributes,
\* earliest_start <= latest_end.
C28_StartBeforeEnd ==
    inp.kind = "node" => inp.earliest_start <= inp.latest_end

\* The entries of the list with entry.when <= when, by position.
PlanMatches == {i \in DOMAIN inp.vec : inp.vec[i].when <= inp.when}

\* The last of them in list order.
PlanChosen == inp.vec[MaxOf(PlanMatches)]

\* C29 as stated: get_plan(when) returns the quantity of the last entry of
\* the list with entry.when <= when, and nothing when there is none.
C29_PlanQuantity ==
    out.op = "get_plan" =>
        out.res = IF PlanMatches = {} THEN None ELSE Some(PlanChosen.plan)

\* C29 amended: get_plan(when) returns nothing when no entry has
\* entry.when <= when; otherwise it takes the last such entry of the list
\* and returns its quantity p when the entry has no suffix,
\* ceil(p * duration / 1040) for pcy and ceil(p * duration * 12 / 1040) for
\* pcm, duration being the developer's duration.
C29_PlanScaledQuantity ==
    out.op = "get_plan" =>
        out.res = IF PlanMatches = {} THEN None
                  ELSE IF PlanChosen.suffix = None THEN Some(PlanChosen.plan)
                  ELSE IF PlanChosen.suffix = Some("pcy")
                  THEN Some(CeilDiv(PlanChosen.plan * inp.duration, 1040))
                  ELSE Some(CeilDiv(PlanChosen.plan * inp.duration * 12, 1040))

\* Two entries apply, the later one of the list is the older one and has a
\* suffix: its scaled quantity has been returned.
C29_Witness ==
    /\ out.op = "get_plan"
    /\ Len(inp.vec) = 2 /\ PlanMatches = {1, 2}
    /\ inp.vec[2].when < inp.vec[1].when
    /\ inp.vec[2].suffix = Some("pcm") /\ inp.vec[1].suffix = None
    /\ out.res # Some(inp.vec[2].plan) /\ out.res # Some(inp.vec[1].plan)

\* The value node n of the configuration holds by itself: its explicit
\* dev, else its name when that is a valid developer.
OwnDev(n) ==
    IF inp.config[n].dev # None THEN inp.config[n].dev
    ELSE IF inp.config[n].name = OUTSOURCE \/ inp.config[n].name \in DOMAIN inp.rt.developers
    THEN Some(inp.config[n].name)
    ELSE None

\* The value of the nearest node with one among n and its non-root ancestors.
NearestDev(n) ==
    IF \A a \in Ancestors(inp.config, n) : OwnDev(a) = None THEN None
    ELSE OwnDev(MaxOf({a \in Ancestors(inp.config, n) : OwnDev(a) # None}))

\* A single pre-order pass: a node without a value takes the resolved value
\* of its parent.
RECURSIVE InheritedDev(_)
InheritedDev(n) ==
    IF OwnDev(n) # None THEN OwnDev(n)
    ELSE IF inp.config[n].parent = 0 THEN None
    ELSE InheritedDev(inp.config[n].parent)

DeriveDevDone == inp.kind = "tree" /\ inp.next > Len(inp.tree)

\* C30: after the derive_dev phase every non-root node's dev is its own
\* explicit dev, else its own name if that is a valid developer, else the
\* value of the nearest non-root ancestor that has one, and unset when no
\* node on the path has one; this equals the result of a single pre-order
\* pass in which each child inherits its parent's resolved value.
C30_DeriveDev ==
    DeriveDevDone =>
        \A n \in DOMAIN inp.tree :
            /\ inp.tree[n].dev = NearestDev(n)
            /\ inp.tree[n].dev = InheritedDev(n)
            /\ inp.tree[n].name = inp.config[n].name
            /\ inp.tree[n].parent = inp.config[n].parent

\* A chain of three nodes: the first has an explicit dev, the second is
\* named after another developer, the third has nothing of its own and
\* takes the second's name; a tree with a node that stays unset exists too.
C30_Witness ==
    /\ DeriveDevDone
    /\ inp.config[1].dev = Some(Mgr)
    /\ inp.config[2].parent = 1 /\ inp.config[2].dev = None /\ inp.config[2].name = Dev
    /\ inp.config[3].parent = 2 /\ inp.config[3].dev = None /\ inp.config[3].name = "task"
    /\ inp.tree[3].dev = Some(Dev)

(***************************************************************************)
(* Properties of a loaded root (DevsSpec).                                 *)
(***************************************************************************)
\* C26: in every root produced by a successful configuration load,
\* now < 20 * weeks.
C26_NowWithinChart ==
    status = "loaded" => root.now < 20 * root.weeks

\* C27: in every root produced by a successful configuration load, whatever
\* the order of the [global] and [devs] nodes, a manager that is set names a
\* developer registered in the developers map.
C27_ManagerRegistered ==
    (status = "loaded" /\ root.manager # None)
        => Unwrap(root.manager) \in DOMAIN root.developers

(***************************************************************************)
(* Further properties of one transfer call (RowSpec).                      *)
(***************************************************************************)
\* The call has ended, in whatever way.
CallEnded == out.op \in {"fill", "debug", "release", "smear"}

\* C31: a transfer called with count = 0 (fill, reverse fill or smear) moves
\* no cell and returns a result with transferred = 0 and failed = 0, even
\* when the period contains transferable cells.
C31_ZeroCountMovesNothing ==
    (CallEnded /\ inp.count = 0) =>
        /\ out.st.outcome = "ok"
        /\ out.st.src = inp.src /\ out.st.dst = inp.dst
        /\ out.st.rc.transferred = 0 /\ out.st.rc.failed = 0

(***************************************************************************)
(* Further properties of the phase steps (Spec).                            *)
(***************************************************************************)
\* The step is a future-allocation call on a FrontLoad, BackLoad,
\* SmearRemaining or ProdSFR node that has a plan.
PlanCappedCall ==
    /\ PlanDriven /\ idx' = idx + 1 /\ CallsAllocation
    /\ nodes[idx].resourcing \in {Some("FrontLoad"), Some("BackLoad"),
                                  Some("SmearRemaining"), Some("ProdSFR")}
    /\ IsSome(nodes[idx].now_plan)

Held(node) == Cardinality(node.cells.cells)

\* C32: a future-allocation call for a FrontLoad, BackLoad, SmearRemaining
\* or ProdSFR node never raises the number of the node's set cells above
\* max(now_plan, the number before the call); when the node already holds
\* at least now_plan cells the call moves no cell out of any developer row
\* and returns success.
C32_NeverAbovePlan ==
    [][PlanCappedCall =>
          /\ Held(nodes'[idx]) <= Larger(Unwrap(nodes[idx].now_plan), Held(nodes[idx]))
          /\ Held(nodes[idx]) >= Unwrap(nodes[idx].now_plan) =>
                /\ \A d \in DOMAIN root.developers :
                      root'.developers[d].cells = root.developers[d].cells
                /\ StepReturned /\ ~Noted]_vars

\* The done phase that the claim gives to entry e of a node: the past phase
\* iff the entry starts before now, else the future phase of the node's
\* managed flag.
DonePhaseOf(node, e) ==
    IF ToU32(node.done[e].start) < root.now THEN "transfer_past_done"
    ELSE IF node.managed THEN "transfer_future_done_managed"
    ELSE "transfer_future_done_unmanaged"

\* C33: across the three done phases each done entry of a node with a
\* registered developer is transferred at most once: each phase visits each
\* node once, and a visit moves cells for, or reports a failure of, only
\* the entries whose phase it is (the past phase iff start < now, else the
\* future phase matching the managed flag); when the visit reports no
\* failure every such entry has received its `time` cells.
C33_DoneEntryOnce ==
    /\ [][phase' > phase \/ (phase' = phase /\ idx' >= idx)]_vars
    /\ [][DoneStep =>
             /\ \A e \in DOMAIN nodes[idx].done :
                   DoneMoved(e) # {} => Phases[phase] = DonePhaseOf(nodes[idx], e)
             /\ \A c \in nodes'[idx].cells.cells \ nodes[idx].cells.cells :
                   \E e \in DOMAIN nodes[idx].done : c \in DoneMoved(e)
             /\ Noted => \E e \in DOMAIN nodes[idx].done :
                            Phases[phase] = DonePhaseOf(nodes[idx], e)
             /\ (StepReturned /\ ~Noted) =>
                   \A e \in DOMAIN nodes[idx].done :
                       Phases[phase] = DonePhaseOf(nodes[idx], e)
                       => Cardinality(DoneMoved(e)) = nodes[idx].done[e].time]_vars

\* The done phases are over: a node with a past and a future done entry
\* holds the cells of both and nothing else, and carries no error.
C33_Witness ==
    /\ phase = PhaseIndex("transfer_future_management_resource") /\ idx = 1
    /\ \E i \in DOMAIN nodes :
          /\ Len(nodes[i].done) = 2 /\ nodes[i].notes = << >>
          /\ ToU32(nodes[i].done[1].start) < root.now
          /\ ToU32(nodes[i].done[2].start) >= root.now
          /\ Cardinality(nodes[i].cells.cells)
                = nodes[i].done[1].time + nodes[i].done[2].time

\* The set cells in the rows of the nodes assigned to developer d, added up
\* node by node.
AssignedCount(d) ==
    SumSeq([i \in 1 .. Len(nodes) |->
               IF nodes[i].dev = Some(d) THEN Cardinality(nodes[i].cells.cells) ELSE 0])

C35_ReverseFillReturns ==
    out.op \in Builds => out.st.outcome \in {"ok", "err"}


\* C36: whenever fill_transfer_to or smear_transfer_to returns a result,
\* transferred is the smaller of count and the number of cells of the
\* period that were transferable at the start of the call; equivalently,
\* failed > 0 means that no transferable cell is left in the period.
C36_TransfersAllItCan ==
    (out.op \in {"fill", "smear"} /\ out.st.outcome = "ok") =>
        /\ out.st.rc.transferred = Smaller(inp.count, Cardinality(TransferableBefore))
        /\ out.st.rc.failed > 0 =>
               TransferableIn(out.st.src, out.st.dst, inp.period) = {}

\* A smear that needed a second pass and still fell short, and a fill that
\* fell short.
C36_Witness ==
    /\ out.st.outcome = "ok"
    /\ out.st.rc.failed > 0
    /\ out.st.rc.transferred > 1
    /\ \/ out.op = "fill"
       \/ out.op = "smear" /\ sm.passes > 1


PlanStrategies ==
    {Some("SmearProRata"), Some("SmearRemaining"), Some("FrontLoad"),
     Some("BackLoad"), Some("ProdSFR")}

\* The cells from now to the end of the chart.
FutureCells == {c \in 0 .. (QuartersInChart(root) - 1) : c >= root.now}

\* C37: a plan-driven future allocation (SmearProRata, SmearRemaining,
\* FrontLoad, BackLoad, ProdSFR) only moves cells c with
\* now <= c < 20*weeks that lie inside the developer's availability
\* period; no cell before now is touched by these phases.
C37_OnlyFutureCellsMove ==
    [][(PlanDriven /\ idx' = idx + 1 /\ nodes[idx].resourcing \in PlanStrategies) =>
          /\ \A c \in nodes'[idx].cells.cells \ nodes[idx].cells.cells :
                /\ c \in FutureCells
                /\ IsSome(nodes[idx].dev)
                /\ Unwrap(nodes[idx].dev) \in DOMAIN root.developers
                /\ c \in PeriodCells(root.developers[Unwrap(nodes[idx].dev)].period)
          /\ nodes[idx].cells.cells \subseteq nodes'[idx].cells.cells
          /\ \A d \in DOMAIN root.developers :
                /\ root'.developers[d].cells.cells \subseteq root.developers[d].cells.cells
                /\ root.developers[d].cells.cells \ root'.developers[d].cells.cells
                       \subseteq FutureCells]_vars

\* Now falls inside the first week and the developer is available from
\* before now: a node without done entries has been given cells, and the
\* developer's cells before now are all still in the developer's row.
C37_Witness ==
    /\ status = "done"
    /\ root.now = 6
    /\ \E i \in DOMAIN nodes :
          /\ nodes[i].resourcing \in PlanStrategies
          /\ nodes[i].done = << >>
          /\ nodes[i].cells.cells # {}
          /\ nodes[i].dev = Some(Dev)
    /\ root.developers[Dev].period.first < root.now
    /\ \A c \in PeriodCells(root.developers[Dev].period) :
          c < root.now => c \in root.developers[Dev].cells.cells


\* C38: transfer_management_resource never moves a manager cell with index
\* below now into the management row, also when now falls in the middle of
\* a week.
C38_ManagementFromNowOn ==
    [][ManagementStep =>
          /\ \A c \in nodes'[idx].cells.cells \ nodes[idx].cells.cells : c >= root.now
          /\ \A c \in root.developers[Unwrap(root.manager)].cells.cells :
                c < root.now => c \in root'.developers[Unwrap(root.manager)].cells.cells]_vars


\* C39: over a full scheduler run the 20% smear part of a ProdSFR node is
\* applied exactly once, whatever its managed flag: until the backload phase
\* a ProdSFR node that started with an empty row and has no done entries
\* holds at most floor(left*20/100) cells, left being its plan, the demand
\* outstanding at its first future-allocation call; the rest is left to the
\* reverse fill.
C39_ProdSFRSmearedOnce ==
    \A i \in DOMAIN nodes :
        (/\ IsProdSFR(nodes[i]) /\ nodes[i].done = << >> /\ IsSome(nodes[i].now_plan)
         /\ phase < PhaseIndex("transfer_future_backload"))
        => Cardinality(nodes[i].cells.cells)
               <= (Unwrap(nodes[i].now_plan) * SmearPercent) \div 100

\* C40: when now = 0 the output row of a task reports done = 0: the period
\* [0, now-1] over which the done cells are counted is empty, and computing
\* it does not underflow the unsigned quarter index.
C40_NoneDoneAtStart ==
    (out.op = "done" /\ out.now = 0) =>
        /\ out.res.outcome = "ok"
        /\ out.res.done = 0
        /\ ~out.res.underflow

====
